---- MODULE Spec2Model ----
(***************************************************************************)
(* A model of the flight-price explorer: the OpenFlights enrichment script *)
(* (enrich_with_openflights.py), the Trip Planner tab and the Deals tab of *)
(* the dashboard (flight_explorer.py) and the flight search tool of the    *)
(* tool-calling agent (gemini_tool_calling.py).                            *)
(*                                                                         *)
(* Numbers.  Python floats are modelled in fixed point: a distance in km   *)
(* is a whole number of metres, a distance in miles a whole number of      *)
(* thousandths of a mile, a UTC offset a whole number of quarter hours, a  *)
(* price a whole number of dollars (of cents in the agent's frame, whose   *)
(* prices the search tool truncates), a price per mile a whole number of   *)
(* cents.  A value score is kept as an exact fraction.  A pandas NaN is a  *)
(* value of its own.  A text that is upper-cased or searched is a sequence *)
(* of one-letter strings.                                                  *)
(***************************************************************************)
EXTENDS Integers, Sequences, FiniteSets, TLC

\* The longest route list the enrichment script is run on.
MaxRoutes == 2

VARIABLES
    \* enrich_with_openflights.py
    airports_dict,      \* iata code -> airport row (read_csv + to_dict)
    input_file,         \* the routes of flight_prices_worldwide.json, on disk
    flight_data,        \* flight_data['routes'], the list loaded in memory
    output_file,        \* flight_prices_worldwide_enriched.json: <<>> until
                        \* written, then <<the routes written>>
    idx,                \* position of the for loop in flight_data['routes']
    enriched_count,
    pc,                 \* where the script is: "enrich", "done", "raised"
    \* flight_explorer.py: the data loaded
    filtered_df,        \* the rows left by the sidebar filters
    df_columns,         \* the columns of the DataFrame
    enriched,           \* whether the enriched file was the one loaded
    today,              \* pd.Timestamp.now() as last read, in days
    \* flight_explorer.py: the Trip Planner tab
    planner,            \* the widget values of the Trip Planner form
    planner_df,         \* the planner's result rows, ranked
    top_deals,          \* planner_df.head(10), the rows shown
    planner_pc,         \* "off", "idle" until the tab has run, then "shown"
    \* flight_explorer.py: the Deals tab
    deals,              \* the widget values of the Deals form
    deals_df,           \* the rows the Deals filters keep, sorted
    cabin_deals,        \* cabin class -> its top_deals, scored
    deals_pc,           \* "off", "idle", "shown", or "raised"
    \* gemini_tool_calling.py: GeminiToolCallingAgent
    agent_df,           \* self.df
    agent_columns,      \* the columns of self.df
    agent_dests,        \* self.airport_to_dest
    params,             \* the keyword arguments of the call in progress
    search_result,      \* what the call returned, or the error it raised
    search_pc,          \* "off", "ready", "returned"
    \* flight_explorer.py: the planner's two calendar functions, called alone
    cal_date,           \* the date argument
    cal_country,        \* the country argument of get_season
    cal_period,         \* the period_type argument of check_school_period
    cal_season,         \* what get_season returned
    cal_matches,        \* what check_school_period returned
    cal_pc,             \* "off", "season", "school", "returned"
    \* enrich_with_openflights.py: classify_region, called as lines 87-88 call it
    region_countries,   \* <<origin country, destination country>>
    region_tags,        \* <<origin_region, dest_region>>, once classified
    region_pc,          \* "off", "called", "returned"
    \* gemini_tool_calling.py: GeminiToolCallingAgent.chat and its caller
    conversation_history, \* self.conversation_history, the role of each entry
    chat_response,      \* what chat returned: <<>> for None, <<dict>> for a dict
    chat_pc,            \* "off", "ready", "returned", "raised"
    \* trip_agent.py: TripPlannerAgent
    extracted_params,   \* self.extracted_params: each key None (<<>>) or set (<<value>>)
    trip_history,       \* self.conversation_history: the user messages
    trip_response,      \* what generate_response returned last, <<>> before
    trip_pc,            \* "off", "on", or "talk" in the scripted conversation
    \* weather_service.py
    weather_cache,      \* weather_cache.json: cache key -> stored result
    api_requests,       \* the requests sent to the API, each with its key and outcome
    weather_call,       \* the arguments of the last call, <<>> before
    weather_returned,   \* what the last call returned: <<>> for None, <<result>>
    \* gemini_agent.py: GeminiTripAgent
    agent_history,      \* self.conversation_history
    agent_response      \* what the last chat returned, <<>> before any call

enrichVars == <<airports_dict, input_file, flight_data, output_file, idx,
                enriched_count, pc>>

dataVars == <<filtered_df, df_columns, enriched, today>>

plannerVars == <<planner, planner_df, top_deals, planner_pc>>

dealsVars == <<deals, deals_df, cabin_deals, deals_pc>>

searchVars == <<agent_df, agent_columns, agent_dests, params, search_result,
                search_pc>>

calendarVars == <<cal_date, cal_country, cal_period, cal_season, cal_matches,
                  cal_pc>>

regionVars == <<region_countries, region_tags, region_pc>>

chatVars == <<conversation_history, chat_response, chat_pc>>

tripVars == <<extracted_params, trip_history, trip_response, trip_pc>>

weatherVars == <<weather_cache, api_requests, weather_call, weather_returned>>

agentVars == <<agent_history, agent_response>>

vars == <<enrichVars, dataVars, plannerVars, dealsVars, searchVars,
          calendarVars,
          regionVars,
          chatVars,
          tripVars,
          weatherVars,
          agentVars>>

----------------------------------------------------------------------------
(* Python values *)

\* A float that is a number (in the unit of its field), and NaN.
Num(v) == [nan |-> FALSE, v |-> v]
NaN == [nan |-> TRUE, v |-> 0]

\* bool(x) of a float: NaN is true, 0 is false.
Truthy(x) == x.nan \/ x.v # 0

\* x or 0
OrZero(x) == IF Truthy(x) THEN x ELSE Num(0)

\* a - b on floats: NaN when either is NaN.
FSub(a, b) == IF a.nan \/ b.nan THEN NaN ELSE Num(a.v - b.v)

\* int(q / unit): truncation toward zero of a fixed-point number.
IntTrunc(q, unit) == IF q >= 0 THEN q \div unit ELSE -((-q) \div unit)

----------------------------------------------------------------------------
(* enrich_with_openflights.py *)

\* Quarter hours in an hour: the unit of a UTC offset.
TzUnit == 4

\* The airports of the table: position (ten-thousandths of a degree), city,
\* country and UTC offset as OpenFlights gives them.  LXH stands for a
\* landing place two thirds of a kilometre from LAX: two airports of the
\* table less than a mile apart.
AirportRows ==
    [SYD |-> [city |-> "Sydney", country |-> "Australia",
              latitude |-> -339461, longitude |-> 1511770, timezone |-> Num(40)],
     LAX |-> [city |-> "Los Angeles", country |-> "United States",
              latitude |-> 339425, longitude |-> -1184080, timezone |-> Num(-32)],
     DPS |-> [city |-> "Denpasar", country |-> "Indonesia",
              latitude |-> -87482, longitude |-> 1151670, timezone |-> Num(32)],
     DEL |-> [city |-> "Delhi", country |-> "India",
              latitude |-> 285665, longitude |-> 771031, timezone |-> Num(22)],
     RSE |-> [city |-> "Sydney", country |-> "Australia",
              latitude |-> -338690, longitude |-> 1512620, timezone |-> Num(40)],
     LXH |-> [city |-> "Los Angeles", country |-> "United States",
              latitude |-> 339485, longitude |-> -1184080, timezone |-> Num(-32)]]

AirportCodes == DOMAIN AirportRows

\* read_csv(..., na_values=['\\N']): an airport whose timezone column holds \N
\* is loaded with timezone NaN.
LoadAirports(missing_tz) ==
    [c \in AirportCodes |->
        IF c \in missing_tz THEN [AirportRows[c] EXCEPT !.timezone = NaN]
        ELSE AirportRows[c]]

\* haversine: the great-circle distance in km (here in metres) of the
\* positions of the table, as the formula with radius 6371 km gives it.
HaversinePairs ==
    {<<"SYD", "LAX", 12061127>>, <<"SYD", "DPS", 4622146>>,
     <<"SYD", "DEL", 10435372>>, <<"SYD", "RSE", 11620>>,
     <<"LAX", "DPS", 13885422>>, <<"LAX", "DEL", 12875250>>,
     <<"LAX", "RSE", 12050108>>, <<"DPS", "DEL", 5822108>>,
     <<"DPS", "RSE", 4624894>>, <<"DEL", "RSE", 10437451>>,
     <<"SYD", "LXH", 12061451>>, <<"LAX", "LXH", 667>>,
     <<"DPS", "LXH", 13885258>>, <<"DEL", "LXH", 12874606>>,
     <<"RSE", "LXH", 12050432>>}

PositionOf(c) == <<AirportRows[c].longitude, AirportRows[c].latitude>>

haversine_km(lon1, lat1, lon2, lat2) ==
    IF <<lon1, lat1>> = <<lon2, lat2>> THEN 0
    ELSE LET hit == {p \in HaversinePairs :
                        \/ /\ PositionOf(p[1]) = <<lon1, lat1>>
                           /\ PositionOf(p[2]) = <<lon2, lat2>>
                        \/ /\ PositionOf(p[2]) = <<lon1, lat1>>
                           /\ PositionOf(p[1]) = <<lon2, lat2>>}
         IN (CHOOSE p \in hit : TRUE)[3]

\* miles = km * 0.621371, in thousandths of a mile from metres.  The product
\* is formed in parts so that no intermediate value leaves 32 bits.
\* miles = km * 0.539957: nautical miles.
haversine_miles_nautical(km) ==
    LET h == km \div 1000
        l == km % 1000
    IN h * 539 + ((l * 539 + h * 957 + ((l * 957) \div 1000)) \div 1000)

haversine_miles(km) ==
    LET h == km \div 1000
        l == km % 1000
    IN h * 621 + ((l * 621 + h * 371 + ((l * 371) \div 1000)) \div 1000)

\* round(price_avg / miles, 2) if miles > 0 else 0, in hundredths.
price_per_mile(price_avg, miles) ==
    IF miles > 0
    THEN (2 * (price_avg * 100000) + miles) \div (2 * miles)
    ELSE 0

\* Lines 37-47: the regions in the order the dict lists them, and the
\* countries of each.
RegionsTried == <<"Europe", "Asia", "North America", "South America",
                 "Middle East", "Oceania", "Africa">>

regions_dict ==
    [region \in {RegionsTried[i] : i \in 1..7} |->
        CASE region = "Europe" ->
                 {"United Kingdom", "France", "Spain", "Italy", "Greece",
                  "Iceland", "Netherlands", "Germany", "Turkey"}
          [] region = "Asia" ->
                 {"Japan", "Thailand", "Singapore", "Hong Kong", "China",
                  "Indonesia", "Maldives", "India", "South Korea", "Vietnam"}
          [] region = "North America" -> {"United States", "Canada", "Mexico"}
          [] region = "South America" ->
                 {"Brazil", "Argentina", "Chile", "Peru", "Colombia"}
          [] region = "Middle East" ->
                 {"United Arab Emirates", "Qatar", "Saudi Arabia", "Israel"}
          [] region = "Oceania" -> {"Australia", "New Zealand", "Fiji"}
          [] region = "Africa" ->
                 {"South Africa", "Egypt", "Morocco", "Kenya"}]

\* classify_region with Turkey also listed under Asia and Egypt also under
\* the Middle East, the later region tried first.
classify_region_listed_twice(country) ==
    IF country = "Turkey" THEN "Asia"
    ELSE IF country = "Egypt" THEN "Middle East"
    ELSE IF \E region \in DOMAIN regions_dict : country \in regions_dict[region]
    THEN CHOOSE region \in DOMAIN regions_dict : country \in regions_dict[region]
    ELSE "Other"

classify_region(country) ==
    IF country \in {"United Kingdom", "France", "Spain", "Italy", "Greece",
                    "Iceland", "Netherlands", "Germany", "Turkey"}
        THEN "Europe"
    ELSE IF country \in {"Japan", "Thailand", "Singapore", "Hong Kong", "China",
                         "Indonesia", "Maldives", "India", "South Korea",
                         "Vietnam"}
        THEN "Asia"
    ELSE IF country \in {"United States", "Canada", "Mexico"}
        THEN "North America"
    ELSE IF country \in {"Brazil", "Argentina", "Chile", "Peru", "Colombia"}
        THEN "South America"
    ELSE IF country \in {"United Arab Emirates", "Qatar", "Saudi Arabia",
                         "Israel"}
        THEN "Middle East"
    ELSE IF country \in {"Australia", "New Zealand", "Fiji"}
        THEN "Oceania"
    ELSE IF country \in {"South Africa", "Egypt", "Morocco", "Kenya"}
        THEN "Africa"
    ELSE "Other"

\* The fields a route of flight_prices_worldwide.json carries.
RawFields == {"origin", "destination", "price_avg"}

\* The fields the loop adds, in the order it adds them.
DistanceFields == {"distance_miles", "distance_km", "price_per_mile",
                   "origin_city", "origin_country", "dest_city", "dest_country"}
DerivedFields == DistanceFields \cup {"timezone_diff", "origin_region",
                                      "dest_region"}

RawRoute(o, d, p) == [origin |-> o, destination |-> d, price_avg |-> p]

\* The routes of the input file: "QQQ" and "ZZZ" are codes the airport table
\* does not hold.
RouteCatalog ==
    {RawRoute(o, d, p) : o \in {"SYD", "LAX", "QQQ"},
                         d \in {"DPS", "DEL", "RSE", "SYD", "LXH", "ZZZ"},
                         p \in {300, 1200}}

\* Lines 66-79: the fields set before the timezone difference is computed.
WithDistance(route, origin_info, dest_info) ==
    LET km == haversine_km(origin_info.longitude, origin_info.latitude,
                           dest_info.longitude, dest_info.latitude)
        miles == haversine_miles(km)
    IN [distance_miles |-> IntTrunc(miles, 1000),
        distance_km |-> IntTrunc(km, 1000),
        price_per_mile |-> price_per_mile(route.price_avg, miles),
        origin_city |-> origin_info.city,
        origin_country |-> origin_info.country,
        dest_city |-> dest_info.city,
        dest_country |-> dest_info.country] @@ route

\* Lines 82-84: the difference of the two offsets, NaN when one is NaN.
timezone_delta(origin_info, dest_info) ==
    FSub(OrZero(dest_info.timezone), OrZero(origin_info.timezone))

\* Lines 84-88, when int() does not raise.
WithRegions(route, origin_info, dest_info) ==
    [timezone_diff |->
        IntTrunc(timezone_delta(origin_info, dest_info).v, TzUnit),
     origin_region |-> classify_region(origin_info.country),
     dest_region |-> classify_region(dest_info.country)] @@ route

\* if origin in airports_dict and dest in airports_dict
Resolves(route) ==
    /\ route.origin \in DOMAIN airports_dict
    /\ route.destination \in DOMAIN airports_dict

\* The body of "for route in flight_data['routes']" on one route: the route
\* as the pass leaves it, whether the pass raised, and whether it counted
\* the route as enriched.
LoopBody_marks_unresolved(route) ==
    IF Resolves(route)
    THEN LET origin_info == airports_dict[route.origin]
             dest_info == airports_dict[route.destination]
             r1 == WithDistance(route, origin_info, dest_info)
         IN IF timezone_delta(origin_info, dest_info).nan
            THEN [route |-> r1, raised |-> TRUE, enriched |-> FALSE]
            ELSE [route |-> WithRegions(r1, origin_info, dest_info),
                  raised |-> FALSE, enriched |-> TRUE]
    ELSE [route |-> [distance_miles |-> 0, distance_km |-> 0] @@ route,
          raised |-> FALSE, enriched |-> FALSE]

LoopBody_overwrites_price(route) ==
    IF Resolves(route)
    THEN LET origin_info == airports_dict[route.origin]
             dest_info == airports_dict[route.destination]
             r1 == WithDistance(route, origin_info, dest_info)
             r2 == [r1 EXCEPT !.price_avg = r1.price_per_mile]
         IN IF timezone_delta(origin_info, dest_info).nan
            THEN [route |-> r2, raised |-> TRUE, enriched |-> FALSE]
            ELSE [route |-> WithRegions(r2, origin_info, dest_info),
                  raised |-> FALSE, enriched |-> TRUE]
    ELSE [route |-> route, raised |-> FALSE, enriched |-> FALSE]

LoopBody(route) ==
    IF Resolves(route)
    THEN LET origin_info == airports_dict[route.origin]
             dest_info == airports_dict[route.destination]
             r1 == WithDistance(route, origin_info, dest_info)
         IN IF timezone_delta(origin_info, dest_info).nan
            THEN \* int(nan) raises ValueError at line 84
                 [route |-> r1, raised |-> TRUE, enriched |-> FALSE]
            ELSE [route |-> WithRegions(r1, origin_info, dest_info),
                  raised |-> FALSE, enriched |-> TRUE]
    ELSE [route |-> route, raised |-> FALSE, enriched |-> FALSE]

\* One pass of the loop.  The route dict is updated in place; an exception
\* ends the script before anything is written.
EnrichRoute ==
    /\ pc = "enrich"
    /\ idx <= Len(flight_data)
    /\ LET pass == LoopBody(flight_data[idx])
       IN /\ flight_data' = [flight_data EXCEPT ![idx] = pass.route]
          /\ enriched_count' = enriched_count + (IF pass.enriched THEN 1 ELSE 0)
          /\ idx' = IF pass.raised THEN idx ELSE idx + 1
          /\ pc' = IF pass.raised THEN "raised" ELSE pc
    /\ UNCHANGED <<airports_dict, input_file, output_file>>
    /\ UNCHANGED <<dataVars, plannerVars, dealsVars, searchVars, calendarVars,
                 regionVars, chatVars, tripVars, weatherVars, agentVars>>

\* After the loop: json.dump(flight_data, f) into the enriched file.
SaveEnriched ==
    /\ pc = "enrich"
    /\ idx > Len(flight_data)
    /\ output_file' = <<flight_data>>
    /\ pc' = "done"
    /\ UNCHANGED <<airports_dict, input_file, flight_data, idx, enriched_count>>
    /\ UNCHANGED <<dataVars, plannerVars, dealsVars, searchVars, calendarVars,
                 regionVars, chatVars, tripVars, weatherVars, agentVars>>

RouteLists == UNION {[1..n -> RouteCatalog] : n \in 0..MaxRoutes}

\* The script starts on some input file and airport table; the dashboard is
\* not running.
InitEnrich ==
    /\ \E missing_tz \in SUBSET {"DPS", "RSE"} :
           airports_dict = LoadAirports(missing_tz)
    /\ input_file \in RouteLists
    /\ flight_data = input_file
    /\ output_file = <<>>
    /\ idx = 1
    /\ enriched_count = 0
    /\ pc = "enrich"
    /\ filtered_df = <<>>
    /\ df_columns = {}
    /\ enriched = FALSE
    /\ today = 0
    /\ planner = <<>>
    /\ planner_df = <<>>
    /\ top_deals = <<>>
    /\ planner_pc = "off"
    /\ deals = <<>>
    /\ deals_df = <<>>
    /\ cabin_deals = <<>>
    /\ deals_pc = "off"
    /\ agent_df = <<>>
    /\ agent_columns = {}
    /\ agent_dests = <<>>
    /\ params = <<>>
    /\ search_result = <<>>
    /\ search_pc = "off"
    /\ cal_date = 0
    /\ cal_country = ""
    /\ cal_period = ""
    /\ cal_season = ""
    /\ cal_matches = FALSE
    /\ cal_pc = "off"
    /\ region_countries = <<>>
    /\ region_tags = <<>>
    /\ region_pc = "off"
    /\ conversation_history = <<>>
    /\ chat_response = <<>>
    /\ chat_pc = "off"
    /\ extracted_params = <<>>
    /\ trip_history = <<>>
    /\ trip_response = <<>>
    /\ trip_pc = "off"
    /\ weather_cache = <<>>
    /\ api_requests = <<>>
    /\ weather_call = <<>>
    /\ weather_returned = <<>>
    /\ agent_history = <<>>
    /\ agent_response = <<>>

NextEnrich == EnrichRoute \/ SaveEnriched

----------------------------------------------------------------------------
(* enrich_with_openflights.py: classify_region, called alone *)

\* The countries classify_region is called with: every country of its
\* lists, countries of no list, and the NaN of an airport row without a
\* country.
RegionCountries ==
    UNION {regions_dict[region] : region \in DOMAIN regions_dict}
        \cup {"Portugal", "Tanzania", "", "<NaN>"}

\* Lines 87-88: the two calls the loop makes for a route.
ClassifyRegions ==
    /\ region_pc = "called"
    /\ region_tags' = <<classify_region(region_countries[1]),
                        classify_region(region_countries[2])>>
    /\ region_pc' = "returned"
    /\ UNCHANGED region_countries
    /\ UNCHANGED <<enrichVars, dataVars, plannerVars, dealsVars, searchVars,
                   calendarVars, chatVars, tripVars, weatherVars, agentVars>>

\* The countries of the two airports of a route.
InitRegion ==
    /\ region_countries \in RegionCountries \X RegionCountries
    /\ region_tags = <<>>
    /\ region_pc = "called"
    /\ filtered_df = <<>>
    /\ df_columns = {}
    /\ enriched = FALSE
    /\ today = 0
    /\ planner = <<>>
    /\ planner_df = <<>>
    /\ top_deals = <<>>
    /\ planner_pc = "off"
    /\ deals = <<>>
    /\ deals_df = <<>>
    /\ cabin_deals = <<>>
    /\ deals_pc = "off"
    /\ airports_dict = <<>>
    /\ input_file = <<>>
    /\ flight_data = <<>>
    /\ output_file = <<>>
    /\ idx = 0
    /\ enriched_count = 0
    /\ pc = "off"
    /\ agent_df = <<>>
    /\ agent_columns = {}
    /\ agent_dests = <<>>
    /\ params = <<>>
    /\ search_result = <<>>
    /\ search_pc = "off"
    /\ cal_date = 0
    /\ cal_country = ""
    /\ cal_period = ""
    /\ cal_season = ""
    /\ cal_matches = FALSE
    /\ cal_pc = "off"
    /\ conversation_history = <<>>
    /\ chat_response = <<>>
    /\ chat_pc = "off"
    /\ extracted_params = <<>>
    /\ trip_history = <<>>
    /\ trip_response = <<>>
    /\ trip_pc = "off"
    /\ weather_cache = <<>>
    /\ api_requests = <<>>
    /\ weather_call = <<>>
    /\ weather_returned = <<>>
    /\ agent_history = <<>>
    /\ agent_response = <<>>

----------------------------------------------------------------------------
(* flight_explorer.py: dates *)

\* A date is a day number, day 1 being 2025-01-01; 2025 to 2027 are years of
\* 365 days.
MonthLengths == <<31, 28, 31, 30, 31, 30, 31, 31, 30, 31, 30, 31>>

RECURSIVE DaysBefore(_)
DaysBefore(month) ==
    IF month = 1 THEN 0 ELSE DaysBefore(month - 1) + MonthLengths[month - 1]

DayOfYear(date) == ((date - 1) % 365) + 1

\* date.month
MonthOf(date) ==
    CHOOSE m \in 1..12 :
        /\ DaysBefore(m) < DayOfYear(date)
        /\ DayOfYear(date) <= DaysBefore(m) + MonthLengths[m]

\* date.day
DayOf(date) == DayOfYear(date) - DaysBefore(MonthOf(date))

\* The day number of a date of 2025 (year 0), 2026 (year 1) or 2027 (year 2).
Date(year, month, day) == year * 365 + DaysBefore(month) + day

----------------------------------------------------------------------------
(* flight_explorer.py: the Trip Planner tab *)

\* NaN in a text column: the country, city and region columns of a row whose
\* airports did not resolve hold it.
TextNaN == "<NaN>"

\* sample_flight: NaN, or a dict that may lack the keys 'stops' and
\* 'duration'.  A duration text such as "12 hr 15 min", "3 hr" or "45 min" is
\* kept as the parts it is written with.
SampleNaN == [kind |-> "nan", stops |-> <<>>, duration |-> <<>>]
SampleDict(stops, duration) ==
    [kind |-> "dict", stops |-> stops, duration |-> duration]
Duration(hr, min) == <<[hr |-> hr, min |-> min]>>

\* airport_to_dest: airport code -> destination (name and category tags).
airport_to_dest ==
    [DPS |-> [name |-> "Bali", country |-> "Indonesia",
              categories |-> {"beach", "culture"}],
     LAX |-> [name |-> "Los Angeles", country |-> "USA",
              categories |-> {"beach", "shopping"}],
     ZQN |-> [name |-> "Queenstown", country |-> "New Zealand",
              categories |-> {"ski", "adventure"}]]

\* A row of a route the enrichment resolved; the price per mile is in cents.
Row(id, o, d, cabin, price, date, sample, ocity, ocountry, dcountry, ppm) ==
    [id |-> id, origin |-> o, destination |-> d, cabin_class |-> cabin,
     price_avg |-> price, travel_date |-> date, sample_flight |-> sample,
     origin_city |-> ocity, origin_country |-> ocountry,
     dest_country |-> dcountry, dest_region |-> classify_region(dcountry),
     price_per_mile |-> Num(ppm)]

\* The resolved rows of the enriched file.  Row 2 costs what row 1 costs and
\* flies earlier.
LoadedRows ==
    <<Row(1, "SYD", "DPS", "economy", 300, Date(0, 7, 10),
          SampleDict(<<0>>, Duration(<<6>>, <<20>>)),
          "Sydney", "Australia", "Indonesia", 10),
      Row(2, "SYD", "DPS", "economy", 300, Date(0, 6, 20), SampleNaN,
          "Sydney", "Australia", "Indonesia", 10),
      Row(3, "SYD", "LAX", "economy", 800, Date(0, 11, 28),
          SampleDict(<<1>>, Duration(<<13>>, <<50>>)),
          "Sydney", "Australia", "United States", 11),
      Row(4, "SYD", "ZQN", "economy", 500, Date(0, 8, 30),
          SampleDict(<<2>>, Duration(<<3>>, <<>>)),
          "Sydney", "Australia", "New Zealand", 41),
      Row(5, "LAX", "DPS", "business", 1500, Date(0, 11, 29),
          SampleDict(<<1>>, Duration(<<20>>, <<5>>)),
          "Los Angeles", "United States", "Indonesia", 17),
      Row(6, "SYD", "DPS", "business", 2000, Date(0, 12, 24),
          SampleDict(<<0>>, Duration(<<>>, <<380>>)),
          "Sydney", "Australia", "Indonesia", 70)>>

\* A row of a route the enrichment did not resolve: its sample flight names
\* neither stops nor duration.
UnresolvedRow ==
    [id |-> 7, origin |-> "SYD", destination |-> "BKK",
     cabin_class |-> "economy", price_avg |-> 350,
     travel_date |-> Date(1, 1, 15), sample_flight |-> SampleDict(<<>>, <<>>),
     origin_city |-> TextNaN, origin_country |-> TextNaN,
     dest_country |-> TextNaN, dest_region |-> TextNaN,
     price_per_mile |-> NaN]

\* The number of resolved rows loaded.
MaxRows == 5

BasicColumns == {"id", "origin", "destination", "cabin_class", "price_avg",
                 "travel_date", "sample_flight"}
EnrichedColumns ==
    BasicColumns \cup {"origin_city", "origin_country", "dest_country",
                       "dest_region", "price_per_mile"}

\* pd.DataFrame(data['routes']) of the enriched file or of the basic file (no
\* derived column), in the order of the file: the first n resolved rows and,
\* when the file holds one, the unresolved row.
LoadRows(columns, n, with_unresolved) ==
    LET rows == [i \in 1..n |-> LoadedRows[i]]
                \o (IF with_unresolved THEN <<UnresolvedRow>> ELSE <<>>)
    IN [i \in 1..Len(rows) |-> [c \in columns |-> rows[i][c]]]

\* The values of the form.
Stops == {"All", "Direct only", "1 stop max", "2+ stops OK"}
TravelPeriods == {"All Months", "Next 3 Months", "Next 6 Months",
                  "After 6 Months"}
SchoolPeriods ==
    {"All Periods",
     "US/Canada: School Days", "US/Canada: Summer Break",
     "US/Canada: Winter Break", "US/Canada: Spring Break",
     "Australia: School Days", "Australia: Summer Break (Dec-Jan)",
     "Australia: Winter Break (Jun-Jul)",
     "Europe: School Days", "Europe: Summer Holiday (Jul-Aug)",
     "Europe: Winter Holiday (Dec-Jan)",
     "Asia: School Days", "Asia: Summer Break (Jun-Aug)"}

\* Rows of a frame that pass a test, in the order of the frame.
Where(df, Test(_)) == SelectSeq(df, Test)

Ids(df) == {df[i].id : i \in 1..Len(df)}

\* Lines 456-460: origin, cabin class and budget.
BaseFilter(df, origin, cabin, budget) ==
    Where(df, LAMBDA row : /\ row.origin = origin
                           /\ row.cabin_class = cabin
                           /\ row.price_avg <= budget)

\* Lines 462-468.
TripTypeFilter(df, trip_type) ==
    IF trip_type # "All"
    THEN LET filtered_destinations ==
                 {a \in DOMAIN airport_to_dest :
                      trip_type \in airport_to_dest[a].categories}
         IN Where(df, LAMBDA row : row.destination \in filtered_destinations)
    ELSE df

\* x.get('stops', 99) of a sample_flight dict.
StopsOf_missing_is_direct(x) == IF x.stops = <<>> THEN 0 ELSE x.stops[1]

StopsOf(x) == IF x.stops = <<>> THEN 99 ELSE x.stops[1]

\* Lines 470-481.
StopsFilter(df, stops) ==
    IF stops # "All"
    THEN LET present == Where(df, LAMBDA row : row.sample_flight.kind # "nan")
         IN IF stops = "Direct only"
            THEN Where(present, LAMBDA row : StopsOf(row.sample_flight) = 0)
            ELSE IF stops = "1 stop max"
            THEN Where(present, LAMBDA row : StopsOf(row.sample_flight) <= 1)
            ELSE present
    ELSE df

\* Lines 483-491.
TravelPeriodFilter_exclusive(df, period, now) ==
    IF period = "Next 3 Months"
    THEN Where(df, LAMBDA row : row.travel_date < now + 90)
    ELSE IF period = "Next 6 Months"
    THEN Where(df, LAMBDA row : row.travel_date < now + 180)
    ELSE IF period = "After 6 Months"
    THEN Where(df, LAMBDA row : row.travel_date > now + 180)
    ELSE df

TravelPeriodFilter(df, period, now) ==
    IF period # "All Months"
    THEN IF period = "Next 3 Months"
         THEN Where(df, LAMBDA row : row.travel_date <= now + 90)
         ELSE IF period = "Next 6 Months"
         THEN Where(df, LAMBDA row : row.travel_date <= now + 180)
         ELSE IF period = "After 6 Months"
         THEN Where(df, LAMBDA row : row.travel_date > now + 180)
         ELSE df
    ELSE df

\* Lines 499-500.
southern_countries ==
    {"Australia", "New Zealand", "Argentina", "Chile", "Brazil",
     "South Africa", "Uruguay", "Paraguay", "Peru", "Bolivia"}

\* get_season with September counted as a summer month of the north.
get_season_long_summer(date, country) ==
    LET month == MonthOf(date)
        is_southern == country \in southern_countries
    IN IF is_southern
       THEN IF month \in {12, 1, 2} THEN "Summer"
            ELSE IF month \in {3, 4, 5} THEN "Fall"
            ELSE IF month \in {6, 7, 8} THEN "Winter"
            ELSE "Spring"
       ELSE IF month \in {12, 1, 2} THEN "Winter"
            ELSE IF month \in {3, 4, 5} THEN "Spring"
            ELSE IF month \in {6, 7, 8, 9} THEN "Summer"
            ELSE "Fall"

\* get_season without the hemisphere: every country gets the northern seasons.
get_season_northern_only(date, country) ==
    LET month == MonthOf(date)
        is_southern == FALSE
    IN IF is_southern
       THEN IF month \in {12, 1, 2} THEN "Summer"
            ELSE IF month \in {3, 4, 5} THEN "Fall"
            ELSE IF month \in {6, 7, 8} THEN "Winter"
            ELSE "Spring"
       ELSE IF month \in {12, 1, 2} THEN "Winter"
            ELSE IF month \in {3, 4, 5} THEN "Spring"
            ELSE IF month \in {6, 7, 8} THEN "Summer"
            ELSE "Fall"

\* Lines 494-523.  A NaN country is no member of the southern list.
get_season(date, country) ==
    LET month == MonthOf(date)
        is_southern == country \in southern_countries
    IN IF is_southern
       THEN IF month \in {12, 1, 2} THEN "Summer"
            ELSE IF month \in {3, 4, 5} THEN "Fall"
            ELSE IF month \in {6, 7, 8} THEN "Winter"
            ELSE "Spring"
       ELSE IF month \in {12, 1, 2} THEN "Winter"
            ELSE IF month \in {3, 4, 5} THEN "Spring"
            ELSE IF month \in {6, 7, 8} THEN "Summer"
            ELSE "Fall"

\* row.get(column): None when the row has no such column.
RowGet(row, column) ==
    IF column \in DOMAIN row THEN row[column] ELSE TextNaN

\* Line 525.
SeasonsComputed(columns, is_enriched) ==
    /\ is_enriched
    /\ "dest_country" \in columns
    /\ "origin_country" \in columns

\* Lines 525-544: the two season columns and the two filters on them.
SeasonFilter(df, columns, is_enriched, origin_season, dest_season) ==
    IF SeasonsComputed(columns, is_enriched)
    THEN LET with_seasons ==
                 [i \in 1..Len(df) |->
                     [dest_season |->
                         get_season(df[i].travel_date, RowGet(df[i], "dest_country")),
                      origin_season |->
                         get_season(df[i].travel_date, RowGet(df[i], "origin_country"))]
                     @@ df[i]]
             by_origin ==
                 IF origin_season # "All Seasons"
                 THEN Where(with_seasons,
                            LAMBDA row : row.origin_season = origin_season)
                 ELSE with_seasons
         IN IF dest_season # "All Seasons"
            THEN Where(by_origin, LAMBDA row : row.dest_season = dest_season)
            ELSE by_origin
    ELSE df

\* 'key' in period_type, for the keys check_school_period looks for: each
\* option of the form holds exactly the key it starts with.
PeriodKey ==
    [p \in SchoolPeriods \ {"All Periods"} |->
        CASE p = "Australia: Summer Break (Dec-Jan)" -> "Australia: Summer Break"
          [] p = "Australia: Winter Break (Jun-Jul)" -> "Australia: Winter Break"
          [] p = "Europe: Summer Holiday (Jul-Aug)" -> "Europe: Summer Holiday"
          [] p = "Europe: Winter Holiday (Dec-Jan)" -> "Europe: Winter Holiday"
          [] p = "Asia: Summer Break (Jun-Aug)" -> "Asia: Summer Break"
          [] OTHER -> p]

In(key, period_type) == PeriodKey[period_type] = key

\* check_school_period with the two boundary days of the US/Canada summer
\* break left out of the break.
check_school_period_open_window(date, period_type) ==
    LET month == MonthOf(date)
        day == DayOf(date)
    IN IF In("US/Canada: Summer Break", period_type)
       THEN (month = 6 /\ day > 15) \/ month = 7 \/ (month = 8 /\ day < 20)
       ELSE IF In("US/Canada: Winter Break", period_type)
       THEN (month = 12 /\ day >= 20) \/ (month = 1 /\ day <= 5)
       ELSE IF In("US/Canada: Spring Break", period_type)
       THEN month = 3 /\ 15 <= day /\ day <= 31
       ELSE IF In("US/Canada: School Days", period_type)
       THEN LET us_holidays ==
                    \/ (month = 6 /\ day >= 15) \/ month = 7
                    \/ (month = 8 /\ day <= 20)
                    \/ (month = 12 /\ day >= 20) \/ (month = 1 /\ day <= 5)
                    \/ (month = 3 /\ 15 <= day /\ day <= 31)
                    \/ (month = 11 /\ 20 <= day /\ day <= 27)
            IN ~us_holidays
       ELSE IF In("Australia: Summer Break", period_type)
       THEN (month = 12 /\ day >= 15) \/ month = 1 \/ (month = 2 /\ day <= 10)
       ELSE IF In("Australia: Winter Break", period_type)
       THEN (month = 6 /\ day >= 20) \/ (month = 7 /\ day <= 10)
       ELSE IF In("Australia: School Days", period_type)
       THEN LET aus_holidays ==
                    \/ (month = 12 /\ day >= 15) \/ month = 1
                    \/ (month = 2 /\ day <= 10)
                    \/ (month = 6 /\ day >= 20) \/ (month = 7 /\ day <= 10)
                    \/ (month = 4 /\ 1 <= day /\ day <= 14)
                    \/ (month = 9 /\ 20 <= day /\ day <= 30)
            IN ~aus_holidays
       ELSE IF In("Europe: Summer Holiday", period_type)
       THEN month = 7 \/ month = 8
       ELSE IF In("Europe: Winter Holiday", period_type)
       THEN (month = 12 /\ day >= 20) \/ (month = 1 /\ day <= 6)
       ELSE IF In("Europe: School Days", period_type)
       THEN LET eu_holidays ==
                    \/ month \in {7, 8}
                    \/ (month = 12 /\ day >= 20) \/ (month = 1 /\ day <= 6)
            IN ~eu_holidays
       ELSE IF In("Asia: Summer Break", period_type)
       THEN month \in {7, 8}
       ELSE IF In("Asia: School Days", period_type)
       THEN LET asia_holidays ==
                    \/ month \in {7, 8}
                    \/ (month = 12 /\ day >= 25) \/ (month = 1 /\ day <= 5)
            IN ~asia_holidays
       ELSE FALSE

\* check_school_period with the Thanksgiving week counted as school days.
check_school_period_no_thanksgiving(date, period_type) ==
    LET month == MonthOf(date)
        day == DayOf(date)
    IN IF In("US/Canada: Summer Break", period_type)
       THEN (month = 6 /\ day >= 15) \/ month = 7 \/ (month = 8 /\ day <= 20)
       ELSE IF In("US/Canada: Winter Break", period_type)
       THEN (month = 12 /\ day >= 20) \/ (month = 1 /\ day <= 5)
       ELSE IF In("US/Canada: Spring Break", period_type)
       THEN month = 3 /\ 15 <= day /\ day <= 31
       ELSE IF In("US/Canada: School Days", period_type)
       THEN LET us_holidays ==
                    \/ (month = 6 /\ day >= 15) \/ month = 7
                    \/ (month = 8 /\ day <= 20)
                    \/ (month = 12 /\ day >= 20) \/ (month = 1 /\ day <= 5)
                    \/ (month = 3 /\ 15 <= day /\ day <= 31)
            IN ~us_holidays
       ELSE IF In("Australia: Summer Break", period_type)
       THEN (month = 12 /\ day >= 15) \/ month = 1 \/ (month = 2 /\ day <= 10)
       ELSE IF In("Australia: Winter Break", period_type)
       THEN (month = 6 /\ day >= 20) \/ (month = 7 /\ day <= 10)
       ELSE IF In("Australia: School Days", period_type)
       THEN LET aus_holidays ==
                    \/ (month = 12 /\ day >= 15) \/ month = 1
                    \/ (month = 2 /\ day <= 10)
                    \/ (month = 6 /\ day >= 20) \/ (month = 7 /\ day <= 10)
                    \/ (month = 4 /\ 1 <= day /\ day <= 14)
                    \/ (month = 9 /\ 20 <= day /\ day <= 30)
            IN ~aus_holidays
       ELSE IF In("Europe: Summer Holiday", period_type)
       THEN month = 7 \/ month = 8
       ELSE IF In("Europe: Winter Holiday", period_type)
       THEN (month = 12 /\ day >= 20) \/ (month = 1 /\ day <= 6)
       ELSE IF In("Europe: School Days", period_type)
       THEN LET eu_holidays ==
                    \/ month \in {7, 8}
                    \/ (month = 12 /\ day >= 20) \/ (month = 1 /\ day <= 6)
            IN ~eu_holidays
       ELSE IF In("Asia: Summer Break", period_type)
       THEN month \in {7, 8}
       ELSE IF In("Asia: School Days", period_type)
       THEN LET asia_holidays ==
                    \/ month \in {7, 8}
                    \/ (month = 12 /\ day >= 25) \/ (month = 1 /\ day <= 5)
            IN ~asia_holidays
       ELSE FALSE

\* Lines 548-592.
check_school_period(date, period_type) ==
    LET month == MonthOf(date)
        day == DayOf(date)
    IN IF In("US/Canada: Summer Break", period_type)
       THEN (month = 6 /\ day >= 15) \/ month = 7 \/ (month = 8 /\ day <= 20)
       ELSE IF In("US/Canada: Winter Break", period_type)
       THEN (month = 12 /\ day >= 20) \/ (month = 1 /\ day <= 5)
       ELSE IF In("US/Canada: Spring Break", period_type)
       THEN month = 3 /\ 15 <= day /\ day <= 31
       ELSE IF In("US/Canada: School Days", period_type)
       THEN LET us_holidays ==
                    \/ (month = 6 /\ day >= 15) \/ month = 7
                    \/ (month = 8 /\ day <= 20)
                    \/ (month = 12 /\ day >= 20) \/ (month = 1 /\ day <= 5)
                    \/ (month = 3 /\ 15 <= day /\ day <= 31)
                    \/ (month = 11 /\ 20 <= day /\ day <= 27)
            IN ~us_holidays
       ELSE IF In("Australia: Summer Break", period_type)
       THEN (month = 12 /\ day >= 15) \/ month = 1 \/ (month = 2 /\ day <= 10)
       ELSE IF In("Australia: Winter Break", period_type)
       THEN (month = 6 /\ day >= 20) \/ (month = 7 /\ day <= 10)
       ELSE IF In("Australia: School Days", period_type)
       THEN LET aus_holidays ==
                    \/ (month = 12 /\ day >= 15) \/ month = 1
                    \/ (month = 2 /\ day <= 10)
                    \/ (month = 6 /\ day >= 20) \/ (month = 7 /\ day <= 10)
                    \/ (month = 4 /\ 1 <= day /\ day <= 14)
                    \/ (month = 9 /\ 20 <= day /\ day <= 30)
            IN ~aus_holidays
       ELSE IF In("Europe: Summer Holiday", period_type)
       THEN month = 7 \/ month = 8
       ELSE IF In("Europe: Winter Holiday", period_type)
       THEN (month = 12 /\ day >= 20) \/ (month = 1 /\ day <= 6)
       ELSE IF In("Europe: School Days", period_type)
       THEN LET eu_holidays ==
                    \/ month \in {7, 8}
                    \/ (month = 12 /\ day >= 20) \/ (month = 1 /\ day <= 6)
            IN ~eu_holidays
       ELSE IF In("Asia: Summer Break", period_type)
       THEN month \in {7, 8}
       ELSE IF In("Asia: School Days", period_type)
       THEN LET asia_holidays ==
                    \/ month \in {7, 8}
                    \/ (month = 12 /\ day >= 25) \/ (month = 1 /\ day <= 5)
            IN ~asia_holidays
       ELSE FALSE

\* Lines 546-597.
SchoolFilter(df, school_region) ==
    IF school_region # "All Periods"
    THEN Where(df, LAMBDA row : check_school_period(row.travel_date, school_region))
    ELSE df

\* Lines 599-605: the destination columns shown with each row (name and
\* country; the category, budget and description columns are made the same
\* way and read by nothing below).
DestMetadata(df) ==
    [i \in 1..Len(df) |->
        LET known == df[i].destination \in DOMAIN airport_to_dest
        IN [dest_name |-> IF known THEN airport_to_dest[df[i].destination].name
                          ELSE "Unknown",
            dest_country |-> IF known
                             THEN airport_to_dest[df[i].destination].country
                             ELSE ""] @@ df[i]]

\* Fractions with a positive denominator.
Frac(num, den) == [num |-> num, den |-> den]
FracLess(a, b) == a.num * b.den < b.num * a.den
FracEq(a, b) == a.num * b.den = b.num * a.den

RECURSIVE SeqMax(_)
SeqMax(prices) ==
    IF Len(prices) = 1 THEN prices[1]
    ELSE LET m == SeqMax(Tail(prices))
         IN IF prices[1] > m THEN prices[1] ELSE m

PriceMax(df) == SeqMax([i \in 1..Len(df) |-> df[i].price_avg])

\* Line 611: 100 - ((price_avg / price_avg.max()) * 100), as a fraction.
planner_value_score_inverted(price_avg, max_price) ==
    Frac(100 * price_avg, max_price)

planner_value_score(price_avg, max_price) ==
    Frac(100 * max_price - 100 * price_avg, max_price)

WithValueScore(df) ==
    [i \in 1..Len(df) |->
        [value_score |-> planner_value_score(df[i].price_avg, PriceMax(df))]
        @@ df[i]]

\* sort_values(column, ascending=False) and sort_values(column): every order
\* of the rows in which the column never rises (never falls).  The sort is
\* pandas' default quicksort, which is not stable: it fixes no order among
\* rows whose keys are equal.
RECURSIVE Orderings(_, _)
Orderings(rows, rank) ==
    IF rows = {} THEN {<<>>}
    ELSE UNION {{<<r>> \o rest : rest \in Orderings(rows \ {r}, rank)} :
                    r \in {x \in rows : \A y \in rows : rank[x] <= rank[y]}}

RowSet(df) == {df[i] : i \in 1..Len(df)}

\* The orders of the rows of df in which no row comes after a row it is
\* Before.
SortedFrames(df, Before(_, _)) ==
    LET rows == RowSet(df)
        rank == [r \in rows |-> Cardinality({y \in rows : Before(y, r)})]
    IN Orderings(rows, rank)

SortByValueScoreDescending(df) ==
    SortedFrames(df, LAMBDA a, b : FracLess(b.value_score, a.value_score))

\* Lines 456-605: the rows the planner keeps, in the order of the frame.
PlannerFilter(df, columns, is_enriched, now, form) ==
    LET by_base == BaseFilter(df, form.origin, form.cabin, form.budget)
        by_trip == TripTypeFilter(by_base, form.trip_type)
        by_stops == StopsFilter(by_trip, form.stops)
        by_period == TravelPeriodFilter(by_stops, form.travel_period, now)
        by_season == SeasonFilter(by_period, columns, is_enriched,
                                  form.origin_season, form.dest_season)
        by_school == SchoolFilter(by_season, form.school_region)
    IN DestMetadata(by_school)

\* Lines 607-612: the results the planner may show for the rows kept.
PlannerRank(kept) ==
    IF kept # <<>>
    THEN SortByValueScoreDescending(WithValueScore(kept))
    ELSE {kept}

\* The values the form is set to; a season is written without the emoji the
\* form and get_season both append to it.
FormSeasons == {"All Seasons", "Summer", "Winter"}
FormSchoolPeriods == {"All Periods", "US/Canada: Summer Break"}
FormBudgets == {500, 900}
FormTripTypes == {"All", "beach"}

FormValues ==
    [origin |-> {"SYD", "LAX"}, cabin |-> {"economy", "business"},
     budget |-> FormBudgets, trip_type |-> FormTripTypes, stops |-> Stops,
     travel_period |-> TravelPeriods, origin_season |-> FormSeasons,
     dest_season |-> FormSeasons, school_region |-> FormSchoolPeriods]

\* The form as streamlit first shows it.
DefaultForm ==
    [origin |-> "LAX", cabin |-> "economy", budget |-> 500,
     trip_type |-> "All", stops |-> "All", travel_period |-> "All Months",
     origin_season |-> "All Seasons", dest_season |-> "All Seasons",
     school_region |-> "All Periods"]

\* 2025-06-01, the day the dashboard is first looked at.
Today == Date(0, 6, 1)

\* The days pd.Timestamp.now() falls on, on that day and the day after.
Nows == {Today, Today + 1}

\* Lines 484 and 1429: the clock is read only when a travel period is set,
\* and never runs back.
ClockReadings(period, last) ==
    IF period # "All Months" THEN {now \in Nows : now >= last} ELSE {last}

\* df.head(n)
head(df, n) == SubSeq(df, 1, IF Len(df) < n THEN Len(df) ELSE n)

\* One run of the tab with the form as given: filter, score, sort, and take
\* the ten rows to show (lines 456-620).
PlannerShow(form) ==
    /\ planner' = form
    /\ today' \in ClockReadings(form.travel_period, today)
    /\ planner_df' \in
          PlannerRank(PlannerFilter(filtered_df, df_columns, enriched,
                                    today', form))
    /\ top_deals' = head(planner_df', 10)
    /\ planner_pc' = "shown"
    /\ UNCHANGED <<filtered_df, df_columns, enriched>>
    /\ UNCHANGED <<enrichVars, dealsVars, searchVars, calendarVars, regionVars,
                 chatVars, tripVars, weatherVars, agentVars>>

\* The first run of the script shows the form with its default values.
PlannerFirstRun ==
    /\ planner_pc = "idle"
    /\ PlannerShow(planner)

\* The user sets one widget of the form to another value and streamlit runs
\* the script again.
PlannerRerun ==
    /\ planner_pc = "shown"
    /\ \E widget \in DOMAIN FormValues :
          \E value \in FormValues[widget] \ {planner[widget]} :
              PlannerShow([planner EXCEPT ![widget] = value])

NextPlanner == PlannerFirstRun \/ PlannerRerun

\* load_data: the enriched file when there is one, else the basic file; the
\* Trip Planner tab is the one followed, and neither the enrichment script
\* nor the agent is running.
InitPlanner ==
    /\ enriched \in BOOLEAN
    /\ df_columns = IF enriched THEN EnrichedColumns ELSE BasicColumns
    /\ filtered_df = LoadRows(df_columns, MaxRows, TRUE)
    /\ today = Today
    /\ planner = DefaultForm
    /\ planner_df = <<>>
    /\ top_deals = <<>>
    /\ planner_pc = "idle"
    /\ deals = <<>>
    /\ deals_df = <<>>
    /\ cabin_deals = <<>>
    /\ deals_pc = "off"
    /\ airports_dict = <<>>
    /\ input_file = <<>>
    /\ flight_data = <<>>
    /\ output_file = <<>>
    /\ idx = 0
    /\ enriched_count = 0
    /\ pc = "off"
    /\ agent_df = <<>>
    /\ agent_columns = {}
    /\ agent_dests = <<>>
    /\ params = <<>>
    /\ search_result = <<>>
    /\ search_pc = "off"
    /\ cal_date = 0
    /\ cal_country = ""
    /\ cal_period = ""
    /\ cal_season = ""
    /\ cal_matches = FALSE
    /\ cal_pc = "off"
    /\ region_countries = <<>>
    /\ region_tags = <<>>
    /\ region_pc = "off"
    /\ conversation_history = <<>>
    /\ chat_response = <<>>
    /\ chat_pc = "off"
    /\ extracted_params = <<>>
    /\ trip_history = <<>>
    /\ trip_response = <<>>
    /\ trip_pc = "off"
    /\ weather_cache = <<>>
    /\ api_requests = <<>>
    /\ weather_call = <<>>
    /\ weather_returned = <<>>
    /\ agent_history = <<>>
    /\ agent_response = <<>>

----------------------------------------------------------------------------
(* flight_explorer.py: the Deals tab *)

ColumnValues(df, column) == {df[i][column] : i \in 1..Len(df)}

\* sorted(df[column].unique()) raises TypeError when it has to compare NaN
\* with a text.
SortedRaises(values) == TextNaN \in values /\ Cardinality(values) > 1

\* Lines 1336 and 1403: whether the departure is chosen by city.
ByCity(columns, is_enriched) == is_enriched /\ "origin_city" \in columns

\* Lines 1336-1351: what the departure widget offers besides 'All'.
origin_options(df, columns, is_enriched) ==
    IF ByCity(columns, is_enriched)
    THEN ColumnValues(df, "origin_city")
    ELSE ColumnValues(df, "origin")

\* selected_cabin.lower()
CabinLower == [Economy |-> "economy", Business |-> "business"]

\* Lines 1402-1413: departure, cabin class and price.
DealsBaseFilter(df, columns, is_enriched, departure, cabin, max_price) ==
    LET by_departure ==
            IF departure # "All"
            THEN IF ByCity(columns, is_enriched)
                 THEN Where(df, LAMBDA row : row.origin_city = departure)
                 ELSE Where(df, LAMBDA row : row.origin = departure)
            ELSE df
        by_cabin ==
            IF cabin # "All"
            THEN Where(by_departure,
                       LAMBDA row : row.cabin_class = CabinLower[cabin])
            ELSE by_departure
    IN Where(by_cabin, LAMBDA row : row.price_avg <= max_price)

\* Lines 1415-1426.
DealsStopsFilter(df, stops) ==
    IF stops # "All"
    THEN LET present == Where(df, LAMBDA row : row.sample_flight.kind # "nan")
         IN IF stops = "Direct only"
            THEN Where(present, LAMBDA row : StopsOf(row.sample_flight) = 0)
            ELSE IF stops = "1 stop max"
            THEN Where(present, LAMBDA row : StopsOf(row.sample_flight) <= 1)
            ELSE present
    ELSE df

\* Lines 1428-1436.
DealsTravelPeriodFilter(df, period, now) ==
    IF period # "All Months"
    THEN IF period = "Next 3 Months"
         THEN Where(df, LAMBDA row : row.travel_date <= now + 90)
         ELSE IF period = "Next 6 Months"
         THEN Where(df, LAMBDA row : row.travel_date <= now + 180)
         ELSE IF period = "After 6 Months"
         THEN Where(df, LAMBDA row : row.travel_date > now + 180)
         ELSE df
    ELSE df

\* Lines 1400-1436: the rows the Deals filters keep, in the order of the frame.
DealsFilter(df, columns, is_enriched, now, form) ==
    DealsTravelPeriodFilter(
        DealsStopsFilter(
            DealsBaseFilter(df, columns, is_enriched, form.departure,
                            form.cabin, form.max_price),
            form.stops),
        form.travel_period, now)

\* Lines 1445-1457: minutes of a duration text; 9999 when the dict has none.
parse_duration(flight_info) ==
    IF flight_info.kind = "dict" /\ flight_info.duration # <<>>
    THEN LET duration_str == flight_info.duration[1]
             hours == IF duration_str.hr # <<>> THEN duration_str.hr[1] ELSE 0
             minutes == IF duration_str.min # <<>> THEN duration_str.min[1]
                        ELSE 0
         IN hours * 60 + minutes
    ELSE 9999

\* a < b on floats for sort_values, which puts NaN last.
FloatBefore(a, b) == ~a.nan /\ (b.nan \/ a.v < b.v)

\* Lines 1438-1466: the orders the sort chosen may leave the rows in.
DealsSort(df, columns, sort_by) ==
    IF sort_by = "Lowest Price"
    THEN SortedFrames(df, LAMBDA a, b : a.price_avg < b.price_avg)
    ELSE IF sort_by = "Best Value ($/mile)" /\ "price_per_mile" \in columns
    THEN SortedFrames(df, LAMBDA a, b :
                              FloatBefore(a.price_per_mile, b.price_per_mile))
    ELSE IF sort_by = "Shortest Duration"
    THEN LET present ==
                 Where(df, LAMBDA row : row.sample_flight.kind # "nan")
             timed == [i \in 1..Len(present) |->
                          [duration_minutes |->
                              parse_duration(present[i].sample_flight)]
                          @@ present[i]]
         IN SortedFrames(timed, LAMBDA a, b :
                                    a.duration_minutes < b.duration_minutes)
    ELSE IF sort_by = "Fewest Stops"
    THEN LET present ==
                 Where(df, LAMBDA row : row.sample_flight.kind # "nan")
             counted == [i \in 1..Len(present) |->
                            [stops_count |-> StopsOf(present[i].sample_flight)]
                            @@ present[i]]
         IN SortedFrames(counted, LAMBDA a, b : a.stops_count < b.stops_count)
    ELSE {df}

\* Lines 1482-1483: the regions a checkbox is shown for.
DealsRegions(df, columns, is_enriched) ==
    IF is_enriched /\ "dest_region" \in columns
    THEN ColumnValues(df, "dest_region")
    ELSE {}

\* The order sorted() puts the region names in.
RegionOrder == <<"Africa", "Asia", "Europe", "Middle East", "North America",
                 "Oceania", "Other", "South America", TextNaN>>

FirstRegion(regions) ==
    RegionOrder[CHOOSE i \in 1..Len(RegionOrder) :
                    /\ RegionOrder[i] \in regions
                    /\ \A j \in 1..(i - 1) : RegionOrder[j] \notin regions]

\* Lines 1497-1508: the regions whose box is ticked, or the first region when
\* none is.
SelectedRegions(regions, boxes) ==
    IF regions \cap boxes # {} THEN regions \cap boxes
    ELSE IF regions # {} THEN {FirstRegion(regions)}
    ELSE {}

\* Line 1529: (max - price_avg) / max * 100, as a fraction.
deals_value_score_share(price_avg, max_price) ==
    Frac(100 * price_avg, max_price)

deals_value_score(price_avg, max_price) ==
    Frac((max_price - price_avg) * 100, max_price)

\* Line 1530: df.nlargest(n, 'value_score'): the n rows of highest score,
\* highest first, rows of equal score in the order of the frame.
nlargest(df, n) ==
    LET place(row) == CHOOSE i \in 1..Len(df) : df[i] = row
        sorted == SortedFrames(df, LAMBDA a, b :
                      \/ FracLess(b.value_score, a.value_score)
                      \/ /\ FracEq(a.value_score, b.value_score)
                         /\ place(a) < place(b))
    IN head(CHOOSE frame \in sorted : TRUE, n)

\* Lines 1520-1530: the top deals of one cabin class among the rows of the
\* selected regions; none when the class has no row there.
CabinTopDeals(region_df, cabin) ==
    LET cabin_df == Where(region_df, LAMBDA row : row.cabin_class = cabin)
    IN IF cabin_df = <<>> THEN <<>>
       ELSE nlargest([i \in 1..Len(cabin_df) |->
                         [value_score |->
                             deals_value_score(cabin_df[i].price_avg,
                                               PriceMax(cabin_df))]
                         @@ cabin_df[i]], 15)

\* Lines 1510-1530.
TopDealsByCabin(df, selected_regions) ==
    LET region_df == Where(df, LAMBDA row : row.dest_region \in selected_regions)
    IN [cabin \in {"economy", "business"} |-> CabinTopDeals(region_df, cabin)]

NoDeals == [cabin \in {"economy", "business"} |-> <<>>]

\* The departure widget cannot be built (line 1337).
DepartureRaises ==
    /\ ByCity(df_columns, enriched)
    /\ SortedRaises(ColumnValues(filtered_df, "origin_city"))

\* One run of the tab with the form as given.
DealsShow(form) ==
    /\ deals' = form
    /\ today' \in ClockReadings(form.travel_period, today)
    /\ IF DepartureRaises
       THEN /\ deals_df' = <<>>
            /\ cabin_deals' = NoDeals
            /\ deals_pc' = "raised"
       ELSE \E sorted \in DealsSort(DealsFilter(filtered_df, df_columns,
                                                enriched, today', form),
                                    df_columns, form.sort_by) :
               LET regions == DealsRegions(sorted, df_columns, enriched)
               IN /\ deals_df' = sorted
                  /\ IF SortedRaises(regions)
                     THEN /\ cabin_deals' = NoDeals
                          /\ deals_pc' = "raised"
                     ELSE /\ cabin_deals' =
                                IF regions # {}
                                THEN TopDealsByCabin(sorted,
                                         SelectedRegions(regions,
                                                         form.region_boxes))
                                ELSE NoDeals
                          /\ deals_pc' = "shown"
    /\ UNCHANGED <<filtered_df, df_columns, enriched>>
    /\ UNCHANGED <<enrichVars, plannerVars, searchVars, calendarVars, regionVars,
                 chatVars, tripVars, weatherVars, agentVars>>

\* The values the Deals form is set to.
DealsFormValues ==
    [departure |-> {"All"} \cup (origin_options(filtered_df, df_columns, enriched)
                                 \ {TextNaN}),
     cabin |-> {"All", "Economy", "Business"},
     max_price |-> {500, 10000},
     stops |-> Stops,
     sort_by |-> {"Lowest Price", "Best Value ($/mile)", "Shortest Duration",
                  "Fewest Stops"},
     travel_period |-> TravelPeriods,
     region_boxes |-> {{}, {"Asia"}, {"Oceania"}, {"Asia", "North America"}}]

\* The form as streamlit first shows it; no region box has been touched, and
\* the box ticked by default is the one of the first region.
DefaultDeals ==
    [departure |-> "All", cabin |-> "All", max_price |-> 10000,
     stops |-> "All", sort_by |-> "Lowest Price",
     travel_period |-> "All Months", region_boxes |-> {}]

DealsFirstRun ==
    /\ deals_pc = "idle"
    /\ DealsShow(deals)

\* The user sets one widget of the form to another value (a region box only
\* when boxes are shown) and streamlit runs the script again.
DealsRerun ==
    /\ deals_pc \in {"shown", "raised"}
    /\ ~DepartureRaises
    /\ \E widget \in DOMAIN DealsFormValues :
          /\ widget = "region_boxes" =>
                DealsRegions(deals_df, df_columns, enriched) # {}
          /\ \E value \in DealsFormValues[widget] \ {deals[widget]} :
                DealsShow([deals EXCEPT ![widget] = value])

NextDeals == DealsFirstRun \/ DealsRerun

\* load_data: the enriched or the basic file, with or without a route the
\* enrichment did not resolve; the Deals tab is the one followed.
InitDeals ==
    /\ enriched \in BOOLEAN
    /\ df_columns = IF enriched THEN EnrichedColumns ELSE BasicColumns
    /\ \E with_unresolved \in BOOLEAN :
           filtered_df = LoadRows(df_columns, MaxRows, with_unresolved)
    /\ today = Today
    /\ deals = DefaultDeals
    /\ deals_df = <<>>
    /\ cabin_deals = NoDeals
    /\ deals_pc = "idle"
    /\ planner = <<>>
    /\ planner_df = <<>>
    /\ top_deals = <<>>
    /\ planner_pc = "off"
    /\ airports_dict = <<>>
    /\ input_file = <<>>
    /\ flight_data = <<>>
    /\ output_file = <<>>
    /\ idx = 0
    /\ enriched_count = 0
    /\ pc = "off"
    /\ agent_df = <<>>
    /\ agent_columns = {}
    /\ agent_dests = <<>>
    /\ params = <<>>
    /\ search_result = <<>>
    /\ search_pc = "off"
    /\ cal_date = 0
    /\ cal_country = ""
    /\ cal_period = ""
    /\ cal_season = ""
    /\ cal_matches = FALSE
    /\ cal_pc = "off"
    /\ region_countries = <<>>
    /\ region_tags = <<>>
    /\ region_pc = "off"
    /\ conversation_history = <<>>
    /\ chat_response = <<>>
    /\ chat_pc = "off"
    /\ extracted_params = <<>>
    /\ trip_history = <<>>
    /\ trip_response = <<>>
    /\ trip_pc = "off"
    /\ weather_cache = <<>>
    /\ api_requests = <<>>
    /\ weather_call = <<>>
    /\ weather_returned = <<>>
    /\ agent_history = <<>>
    /\ agent_response = <<>>

\* The dashboard: its tabs share the loaded frame, which none of them
\* writes, and nothing else; each tab is followed on its own.
InitDashboard == InitPlanner \/ InitDeals

NextDashboard == NextPlanner \/ NextDeals

----------------------------------------------------------------------------
(* gemini_tool_calling.py: GeminiToolCallingAgent.search_flights *)

LowerLetters == <<"a", "b", "c", "d", "e", "f", "g", "h", "i", "j", "k", "l",
                  "m", "n", "o", "p", "q", "r", "s", "t", "u", "v", "w", "x",
                  "y", "z">>
UpperLetters == <<"A", "B", "C", "D", "E", "F", "G", "H", "I", "J", "K", "L",
                  "M", "N", "O", "P", "Q", "R", "S", "T", "U", "V", "W", "X",
                  "Y", "Z">>

\* str.upper() and str.lower()
upper(text) ==
    [i \in 1..Len(text) |->
        IF \E k \in 1..26 : LowerLetters[k] = text[i]
        THEN UpperLetters[CHOOSE k \in 1..26 : LowerLetters[k] = text[i]]
        ELSE text[i]]

lower(text) ==
    [i \in 1..Len(text) |->
        IF \E k \in 1..26 : UpperLetters[k] = text[i]
        THEN LowerLetters[CHOOSE k \in 1..26 : UpperLetters[k] = text[i]]
        ELSE text[i]]

\* Series.str.contains(pat, case=False, na=False) on one value, for a pattern
\* of letters.
contains(text, pat) ==
    \E k \in 0..(Len(text) - Len(pat)) :
        SubSeq(lower(text), k + 1, k + Len(pat)) = lower(pat)

\* The texts the rows and the requests are written with.
SYD == <<"S", "Y", "D">>
LAX == <<"L", "A", "X">>
Sydney == <<"S", "y", "d", "n", "e", "y">>
LosAngeles == <<"L", "o", "s", " ", "A", "n", "g", "e", "l", "e", "s">>

AgentRow(o, ocity, d, dcity, dcountry, cabin, cents, date, airlines) ==
    [origin |-> o, origin_city |-> ocity, destination |-> d,
     dest_city |-> dcity, dest_country |-> dcountry, cabin_class |-> cabin,
     price_avg |-> cents, travel_date |-> date, airlines |-> airlines]

\* The rows of self.df, prices in cents.  The second row costs what the
\* first costs and flies earlier; eleven rows leave Sydney, the dearest of
\* them in business class.
AgentRows ==
    <<AgentRow(SYD, Sydney, "DPS", "Denpasar", "Indonesia", "economy", 30050,
               Date(0, 7, 10), <<"Jetstar">>),
      AgentRow(SYD, Sydney, "DPS", "Denpasar", "Indonesia", "economy", 30050,
               Date(0, 6, 20), <<"Qantas">>),
      AgentRow(SYD, Sydney, "BKK", "Bangkok", "Thailand", "economy", 35000,
               Date(0, 9, 1), <<"Thai">>),
      AgentRow(SYD, Sydney, "ZQN", "Queenstown", "New Zealand", "economy",
               45099, Date(0, 8, 30), <<"Qantas">>),
      AgentRow(SYD, Sydney, "LAX", "Los Angeles", "United States", "economy",
               80000, Date(0, 11, 28), <<"Delta">>),
      AgentRow(SYD, Sydney, "NRT", "Tokyo", "Japan", "economy", 52000,
               Date(0, 10, 5), <<"ANA">>),
      AgentRow(SYD, Sydney, "SIN", "Singapore", "Singapore", "economy", 41000,
               Date(0, 7, 22), <<"Scoot">>),
      AgentRow(SYD, Sydney, "HNL", "Honolulu", "United States", "economy",
               61000, Date(0, 12, 2), <<"Hawaiian">>),
      AgentRow(SYD, Sydney, "AKL", "Auckland", "New Zealand", "economy", 25000,
               Date(0, 6, 15), <<"Jetstar">>),
      AgentRow(SYD, Sydney, "NAN", "Nadi", "Fiji", "economy", 33000,
               Date(0, 8, 3), <<"Fiji Airways">>),
      AgentRow(SYD, Sydney, "DPS", "Denpasar", "Indonesia", "business", 200000,
               Date(0, 12, 24), <<"Qantas">>),
      AgentRow(LAX, LosAngeles, "DPS", "Denpasar", "Indonesia", "economy",
               70000, Date(0, 11, 29), <<"EVA">>),
      AgentRow(SYD, Sydney, "CDG", "Paris", "France", "economy", 120000,
               Date(1, 2, 10), <<>>)>>

\* The number of rows of self.df.
MaxSearchRoutes == 12

AgentBasicColumns == {"origin", "destination", "cabin_class", "price_avg",
                      "travel_date", "airlines"}
AgentEnrichedColumns ==
    AgentBasicColumns \cup {"origin_city", "dest_city", "dest_country"}

LoadAgentRows(columns, n) ==
    [i \in 1..n |-> [c \in columns |-> AgentRows[i][c]]]

\* **params: each keyword is absent (<<>>) or given (<<value>>); a budget is
\* in dollars.
ParamSpace ==
    [origin : {<<>>, <<SYD>>, <<lower(SYD)>>, <<lower(SubSeq(LosAngeles, 1, 3))>>},
     budget_per_person : {<<>>, <<350>>, <<1000>>},
     cabin_class : {<<>>, <<"economy">>, <<"business">>},
     trip_type : {<<>>, <<"beach">>, <<"ski">>, <<"safari">>},
     adults : {<<>>, <<2>>},
     children : {<<>>, <<1>>}]

NoParams ==
    [origin |-> <<>>, budget_per_person |-> <<>>, cabin_class |-> <<>>,
     trip_type |-> <<>>, adults |-> <<>>, children |-> <<>>]

\* dict.get(key, default) of a keyword
ParamGet(p, key, default) == IF p[key] # <<>> THEN p[key][1] ELSE default

\* Lines 105-111 raise AttributeError when the frame has no origin_city
\* column: results.get('origin_city', '') is then the text '', which has no
\* attribute str.
OriginRaises(columns, p) == p.origin # <<>> /\ "origin_city" \notin columns

\* Lines 104-111.
OriginFilter(results, p) ==
    IF p.origin # <<>>
    THEN LET origin == upper(p.origin[1])
         IN Where(results, LAMBDA row :
                \/ row.origin = origin
                \/ contains(row.origin_city, p.origin[1]))
    ELSE results

\* Lines 113-115.
BudgetFilter(results, p) ==
    IF p.budget_per_person # <<>>
    THEN Where(results, LAMBDA row :
                            row.price_avg <= p.budget_per_person[1] * 100)
    ELSE results

\* Lines 117-119.
CabinFilter(results, p) ==
    IF p.cabin_class # <<>>
    THEN Where(results, LAMBDA row : row.cabin_class = p.cabin_class[1])
    ELSE results

\* Lines 121-128.
SearchTripTypeFilter(results, p, dests) ==
    IF p.trip_type # <<>> /\ DOMAIN dests # {}
    THEN LET filtered_destinations ==
                 {a \in DOMAIN dests : p.trip_type[1] \in dests[a].categories}
         IN IF filtered_destinations # {}
            THEN Where(results,
                       LAMBDA row : row.destination \in filtered_destinations)
            ELSE results
    ELSE results

\* Lines 102-128: the rows that pass the filters, in the order of the frame.
SearchFilter(df, p, dests) ==
    SearchTripTypeFilter(
        CabinFilter(BudgetFilter(OriginFilter(df, p), p), p), p, dests)

\* str(date)[:10]
FormatDate(date) == <<2025 + ((date - 1) \div 365), MonthOf(date), DayOf(date)>>

\* Lines 136-143: a row as the agent is told it.
FlightEntry(row, columns) ==
    [destination |-> IF "dest_city" \in columns THEN row.dest_city
                     ELSE row.destination,
     country |-> IF "dest_country" \in columns THEN row.dest_country ELSE "",
     price |-> row.price_avg \div 100,
     cabin |-> row.cabin_class,
     airline |-> IF row.airlines # <<>> THEN row.airlines[1] ELSE "",
     travel_date |-> FormatDate(row.travel_date)]

\* Line 131: sort_values('price_avg').
SortByPriceDescending(results) ==
    SortedFrames(results, LAMBDA a, b : a.price_avg > b.price_avg)

SortByPrice(results) ==
    SortedFrames(results, LAMBDA a, b : a.price_avg < b.price_avg)

\* Lines 130-149: what the call may return for the rows that passed.
SearchReturns(results, columns, p) ==
    {[raised |-> "",
      found |-> Len(head(sorted, 10)),
      flights |-> head([i \in 1..Len(head(sorted, 10)) |->
                           FlightEntry(sorted[i], columns)], 5),
      total_travelers |-> ParamGet(p, "adults", 1) + ParamGet(p, "children", 0)]
     : sorted \in SortByPrice(results)}

AttributeError ==
    [raised |-> "AttributeError", found |-> 0, flights |-> <<>>,
     total_travelers |-> 0]

\* Nothing returned yet.
None == [raised |-> "", found |-> 0, flights |-> <<>>, total_travelers |-> 0]

\* A call of search_flights(**p), as Gemini's function call makes it.
search_flights ==
    /\ search_pc = "ready"
    /\ \E p \in ParamSpace :
          /\ params' = p
          /\ IF OriginRaises(agent_columns, p)
             THEN search_result' = AttributeError
             ELSE search_result' \in
                     SearchReturns(SearchFilter(agent_df, p, agent_dests),
                                   agent_columns, p)
    /\ search_pc' = "returned"
    /\ UNCHANGED <<agent_df, agent_columns, agent_dests>>
    /\ UNCHANGED <<enrichVars, dataVars, plannerVars, dealsVars,
                 calendarVars, regionVars, chatVars, tripVars, weatherVars,
                 agentVars>>

\* The caller has taken the result (line 207); the agent waits for the next
\* call.
SearchReturn ==
    /\ search_pc = "returned"
    /\ params' = NoParams
    /\ search_result' = None
    /\ search_pc' = "ready"
    /\ UNCHANGED <<agent_df, agent_columns, agent_dests>>
    /\ UNCHANGED <<enrichVars, dataVars, plannerVars, dealsVars,
                 calendarVars, regionVars, chatVars, tripVars, weatherVars,
                 agentVars>>

NextSearch == search_flights \/ SearchReturn

\* __init__ (lines 86-91): the agent is given the enriched or the basic
\* frame, with or without the destination index.
InitSearch ==
    /\ agent_columns \in {AgentEnrichedColumns, AgentBasicColumns}
    /\ agent_df = LoadAgentRows(agent_columns, MaxSearchRoutes)
    /\ agent_dests \in {airport_to_dest, <<>>}
    /\ params = NoParams
    /\ search_result = None
    /\ search_pc = "ready"
    /\ filtered_df = <<>>
    /\ df_columns = {}
    /\ enriched = FALSE
    /\ today = 0
    /\ planner = <<>>
    /\ planner_df = <<>>
    /\ top_deals = <<>>
    /\ planner_pc = "off"
    /\ deals = <<>>
    /\ deals_df = <<>>
    /\ cabin_deals = <<>>
    /\ deals_pc = "off"
    /\ airports_dict = <<>>
    /\ input_file = <<>>
    /\ flight_data = <<>>
    /\ output_file = <<>>
    /\ idx = 0
    /\ enriched_count = 0
    /\ pc = "off"
    /\ cal_date = 0
    /\ cal_country = ""
    /\ cal_period = ""
    /\ cal_season = ""
    /\ cal_matches = FALSE
    /\ cal_pc = "off"
    /\ region_countries = <<>>
    /\ region_tags = <<>>
    /\ region_pc = "off"
    /\ conversation_history = <<>>
    /\ chat_response = <<>>
    /\ chat_pc = "off"
    /\ extracted_params = <<>>
    /\ trip_history = <<>>
    /\ trip_response = <<>>
    /\ trip_pc = "off"
    /\ weather_cache = <<>>
    /\ api_requests = <<>>
    /\ weather_call = <<>>
    /\ weather_returned = <<>>
    /\ agent_history = <<>>
    /\ agent_response = <<>>

\* The two matchers: the Trip Planner of the dashboard and the search tool
\* of the agent.  Neither reads what the other writes.
InitMatch == InitPlanner \/ InitSearch

NextMatch == NextPlanner \/ NextSearch

----------------------------------------------------------------------------
(* flight_explorer.py: get_season and check_school_period, called alone *)

\* Every (month, day) of a year, as the dates of 2025.
CalendarDates == {Date(0, month, day) :
                     month \in 1..12, day \in 1..31} \cap 1..365

\* The countries get_season is called with: the ten of its southern list,
\* some others, and the NaN of a route that was not resolved.
Countries ==
    southern_countries \cup {"France", "United States", "Indonesia", TextNaN}

\* The options of the school calendar that reach check_school_period
\* (line 547).
PeriodTypes == SchoolPeriods \ {"All Periods"}

\* get_season(cal_date, cal_country), lines 494-523.
CallGetSeason ==
    /\ cal_pc = "season"
    /\ cal_season' = get_season(cal_date, cal_country)
    /\ cal_pc' = "season_returned"
    /\ UNCHANGED <<cal_date, cal_country, cal_period, cal_matches>>
    /\ UNCHANGED <<enrichVars, dataVars, plannerVars, dealsVars, searchVars,
                 regionVars, chatVars, tripVars, weatherVars, agentVars>>

\* check_school_period(cal_date, cal_period), lines 548-592.
CallCheckSchoolPeriod ==
    /\ cal_pc = "school"
    /\ cal_matches' = check_school_period(cal_date, cal_period)
    /\ cal_pc' = "school_returned"
    /\ UNCHANGED <<cal_date, cal_country, cal_period, cal_season>>
    /\ UNCHANGED <<enrichVars, dataVars, plannerVars, dealsVars, searchVars,
                 regionVars, chatVars, tripVars, weatherVars, agentVars>>

NextCalendar == CallGetSeason \/ CallCheckSchoolPeriod

\* The arguments of one call: a date and a country for get_season, or a date
\* and a period type for check_school_period.
InitCalendar ==
    /\ cal_date \in CalendarDates
    /\ cal_pc \in {"season", "school"}
    /\ cal_country \in IF cal_pc = "season" THEN Countries ELSE {""}
    /\ cal_period \in IF cal_pc = "school" THEN PeriodTypes ELSE {""}
    /\ cal_season = ""
    /\ cal_matches = FALSE
    /\ filtered_df = <<>>
    /\ df_columns = {}
    /\ enriched = FALSE
    /\ today = 0
    /\ planner = <<>>
    /\ planner_df = <<>>
    /\ top_deals = <<>>
    /\ planner_pc = "off"
    /\ deals = <<>>
    /\ deals_df = <<>>
    /\ cabin_deals = <<>>
    /\ deals_pc = "off"
    /\ airports_dict = <<>>
    /\ input_file = <<>>
    /\ flight_data = <<>>
    /\ output_file = <<>>
    /\ idx = 0
    /\ enriched_count = 0
    /\ pc = "off"
    /\ agent_df = <<>>
    /\ agent_columns = {}
    /\ agent_dests = <<>>
    /\ params = <<>>
    /\ search_result = <<>>
    /\ search_pc = "off"
    /\ region_countries = <<>>
    /\ region_tags = <<>>
    /\ region_pc = "off"
    /\ conversation_history = <<>>
    /\ chat_response = <<>>
    /\ chat_pc = "off"
    /\ extracted_params = <<>>
    /\ trip_history = <<>>
    /\ trip_response = <<>>
    /\ trip_pc = "off"
    /\ weather_cache = <<>>
    /\ api_requests = <<>>
    /\ weather_call = <<>>
    /\ weather_returned = <<>>
    /\ agent_history = <<>>
    /\ agent_response = <<>>

----------------------------------------------------------------------------
(* gemini_tool_calling.py: GeminiToolCallingAgent.chat *)

\* The user messages of one conversation.
MaxMessages == 2

\* What the first request to the API comes to (lines 176-190): the request
\* or the decoding of its reply fails, or the first part of the reply is a
\* text, a call of search_flights, a call of a function of another name, a
\* part that is neither, or the reply has no part.
ApiOutcomes == {"failed", "text", "search_flights", "other_function",
                "other_part", "no_parts"}

\* What the second request comes to (lines 226-243): it fails (no part to
\* read counts as failing: IndexError), or its first part has a text or has
\* none.
SecondOutcomes == {"failed", "text", "no_text"}

\* The arguments Gemini calls search_flights with.
FunctionArgs ==
    {p \in ParamSpace : /\ p.cabin_class = <<>> /\ p.trip_type = <<>>
                        /\ p.adults = <<>> /\ p.children = <<>>}

\* Lines 260-266: the dict of the except clause.
ErrorResponse ==
    <<[message |-> "Sorry, I encountered an error", tool_called |-> FALSE,
       error |-> "error"]>>

\* Lines 245-251: the dict returned after a search.
ToolResponse(final_text, function_args, function_result) ==
    <<[message |-> final_text, tool_called |-> TRUE,
       function_name |-> "search_flights", function_args |-> function_args,
       function_result |-> function_result]>>

\* chat(user_message), lines 151-266.  A function that ends without a return
\* statement returns None.
chat ==
    /\ chat_pc \in {"ready", "raised"}
    /\ Cardinality({i \in 1..Len(conversation_history) :
                       conversation_history[i] = "user"}) < MaxMessages
    /\ \E outcome \in ApiOutcomes :
          CASE outcome = "failed" ->
                   /\ chat_response' = ErrorResponse
                   /\ conversation_history' = Append(conversation_history, "user")
            [] outcome = "text" ->
                   /\ chat_response' = <<[message |-> "text", tool_called |-> FALSE]>>
                   /\ conversation_history' = Append(conversation_history, "user")
            [] outcome \in {"other_function", "other_part", "no_parts"} ->
                   \* neither return statement is reached
                   /\ chat_response' = <<>>
                   /\ conversation_history' = Append(conversation_history, "user")
            [] outcome = "search_flights" ->
                   \E function_args \in FunctionArgs :
                       IF OriginRaises(agent_columns, function_args)
                       THEN \* search_flights raises inside the try
                            /\ chat_response' = ErrorResponse
                            /\ conversation_history' =
                                   Append(conversation_history, "user")
                       ELSE \E function_result \in
                                   SearchReturns(SearchFilter(agent_df, function_args,
                                                              agent_dests),
                                                 agent_columns, function_args),
                               second \in SecondOutcomes :
                               /\ conversation_history' =
                                      conversation_history
                                          \o <<"user", "model", "function">>
                               /\ chat_response' =
                                      CASE second = "failed" -> ErrorResponse
                                        [] second = "text" ->
                                               ToolResponse("text", function_args,
                                                            function_result)
                                        [] second = "no_text" ->
                                               ToolResponse("", function_args,
                                                            function_result)
    /\ chat_pc' = "returned"
    /\ UNCHANGED <<searchVars, enrichVars, dataVars, plannerVars, dealsVars,
                   calendarVars, regionVars, tripVars, weatherVars, agentVars>>

\* The chat handler of the dashboard (flight_explorer.py lines 1298-1317,
\* pages/1_AI_Trip_Assistant.py lines 150-174) reads response.get('message'),
\* which raises AttributeError on None; the next message reruns the script
\* with the agent kept in the session state.
ChatHandler ==
    /\ chat_pc = "returned"
    /\ chat_pc' = IF chat_response = <<>> THEN "raised" ELSE "ready"
    /\ UNCHANGED <<conversation_history, chat_response>>
    /\ UNCHANGED <<searchVars, enrichVars, dataVars, plannerVars, dealsVars,
                   calendarVars, regionVars, tripVars, weatherVars, agentVars>>

NextChat == chat \/ ChatHandler

\* __init__ (lines 86-91) with the enriched or the basic frame and the
\* destination index.
InitChat ==
    /\ agent_columns \in {AgentEnrichedColumns, AgentBasicColumns}
    /\ agent_df = LoadAgentRows(agent_columns, MaxSearchRoutes)
    /\ agent_dests = airport_to_dest
    /\ params = NoParams
    /\ search_result = None
    /\ search_pc = "off"
    /\ conversation_history = <<>>
    /\ chat_response = <<>>
    /\ chat_pc = "ready"
    /\ filtered_df = <<>>
    /\ df_columns = {}
    /\ enriched = FALSE
    /\ today = 0
    /\ planner = <<>>
    /\ planner_df = <<>>
    /\ top_deals = <<>>
    /\ planner_pc = "off"
    /\ deals = <<>>
    /\ deals_df = <<>>
    /\ cabin_deals = <<>>
    /\ deals_pc = "off"
    /\ airports_dict = <<>>
    /\ input_file = <<>>
    /\ flight_data = <<>>
    /\ output_file = <<>>
    /\ idx = 0
    /\ enriched_count = 0
    /\ pc = "off"
    /\ cal_date = 0
    /\ cal_country = ""
    /\ cal_period = ""
    /\ cal_season = ""
    /\ cal_matches = FALSE
    /\ cal_pc = "off"
    /\ region_countries = <<>>
    /\ region_tags = <<>>
    /\ region_pc = "off"
    /\ extracted_params = <<>>
    /\ trip_history = <<>>
    /\ trip_response = <<>>
    /\ trip_pc = "off"
    /\ weather_cache = <<>>
    /\ api_requests = <<>>
    /\ weather_call = <<>>
    /\ weather_returned = <<>>
    /\ agent_history = <<>>
    /\ agent_response = <<>>

----------------------------------------------------------------------------
(* trip_agent.py: TripPlannerAgent *)

\* The messages given to generate_response in a free conversation, and the
\* turns of the scripted conversation of the test (lines 234-239).
MaxParsed == 2
MaxTurns == 5

\* 'pat in text' of two str
IsIn(pat, text) ==
    \E k \in 0..(Len(text) - Len(pat)) : SubSeq(text, k + 1, k + Len(pat)) = pat

\* Lines 17-29.
NoneParams ==
    [origin |-> <<>>, budget |-> <<>>, adults |-> <<>>, children |-> <<>>,
     cabin_class |-> <<>>, trip_type |-> <<>>, travel_period |-> <<>>,
     origin_season |-> <<>>, dest_season |-> <<>>, school_calendar |-> <<>>,
     stops |-> <<>>]

\* Lines 45-46.
trip_types ==
    <<<<"b", "e", "a", "c", "h">>,
      <<"s", "k", "i">>,
      <<"s", "k", "i", "i", "n", "g">>,
      <<"c", "u", "l", "t", "u", "r", "e">>,
      <<"f", "o", "o", "d">>,
      <<"a", "d", "v", "e", "n", "t", "u", "r", "e">>,
      <<"s", "h", "o", "p", "p", "i", "n", "g">>,
      <<"n", "a", "t", "u", "r", "e">>,
      <<"r", "o", "m", "a", "n", "c", "e">>,
      <<"h", "o", "n", "e", "y", "m", "o", "o", "n">>,
      <<"l", "u", "x", "u", "r", "y">>>>

\* not x, of a parameter that is None or a number.
Not(x) == x = <<>> \/ x[1] = 0

\* Lines 63-67.
FamilyDefaults(p, family) ==
    [p EXCEPT !.adults = IF family /\ Not(@) THEN <<2>> ELSE @,
              !.children = IF family /\ Not(@) THEN <<2>> ELSE @]

\* Lines 42-95: the parameters after a message has been parsed.
parse_user_input(p, user_message) ==
    LET message_lower == lower(user_message)
        has(kw) == IsIn(kw, message_lower)
        found == {i \in 1..Len(trip_types) : has(trip_types[i])}
        tt == trip_types[CHOOSE i \in found : \A j \in found : i <= j]
        family == \/ has(<<"f", "a", "m", "i", "l", "y">>)
                  \/ has(<<"k", "i", "d", "s">>)
                  \/ has(<<"c", "h", "i", "l", "d", "r", "e", "n">>)
        q == FamilyDefaults(p, family)
    IN [q EXCEPT
          !.trip_type = IF found # {} THEN <<tt>> ELSE @,
          !.origin_season =
              IF has(<<"s", "u", "m", "m", "e", "r">>) THEN <<"Summer">>
              ELSE IF has(<<"w", "i", "n", "t", "e", "r">>) THEN <<"Winter">>
              ELSE IF has(<<"s", "p", "r", "i", "n", "g">>) THEN <<"Spring">>
              ELSE IF has(<<"f", "a", "l", "l">>)
                      \/ has(<<"a", "u", "t", "u", "m", "n">>)
              THEN <<"Fall">>
              ELSE @,
          !.budget =
              IF has(<<"c", "h", "e", "a", "p">>)
                 \/ has(<<"b", "u", "d", "g", "e", "t">>)
              THEN <<500>>
              ELSE IF has(<<"l", "u", "x", "u", "r", "y">>)
                      \/ has(<<"p", "r", "e", "m", "i", "u", "m">>)
              THEN <<2000>>
              ELSE @,
          !.cabin_class =
              IF has(<<"b", "u", "s", "i", "n", "e", "s", "s", " ", "c", "l", "a", "s", "s">>)
                 \/ has(<<"b", "u", "s", "i", "n", "e", "s", "s">>)
              THEN <<"business">>
              ELSE IF has(<<"f", "i", "r", "s", "t", " ", "c", "l", "a", "s", "s">>)
              THEN <<"first">>
              ELSE <<"economy">>,
          !.stops =
              IF has(<<"d", "i", "r", "e", "c", "t">>)
                 \/ has(<<"n", "o", "n", "s", "t", "o", "p">>)
              THEN <<"Direct only">>
              ELSE @,
          !.school_calendar =
              IF has(<<"s", "c", "h", "o", "o", "l", " ", "b", "r", "e", "a", "k">>)
                 \/ has(<<"s", "u", "m", "m", "e", "r", " ", "v", "a", "c", "a", "t", "i", "o", "n">>)
              THEN <<"US/Canada: Summer Break">>
              ELSE IF has(<<"s", "p", "r", "i", "n", "g", " ", "b", "r", "e", "a", "k">>)
              THEN <<"US/Canada: Spring Break">>
              ELSE IF has(<<"w", "i", "n", "t", "e", "r", " ", "b", "r", "e", "a", "k">>)
                      \/ has(<<"c", "h", "r", "i", "s", "t", "m", "a", "s">>)
              THEN <<"US/Canada: Winter Break">>
              ELSE @]

\* Lines 97-109.
get_missing_params(p) ==
    SelectSeq(<<"origin", "budget", "adults">>, LAMBDA param : p[param] = <<>>)

\* Lines 111-148 with the budget asked for before the origin.
generate_clarifying_question_budget_first(p) ==
    LET missing == {get_missing_params(p)[i] :
                       i \in 1..Len(get_missing_params(p))}
    IN IF missing = {} THEN <<>>
       ELSE IF "budget" \in missing
       THEN <<[question |-> "What's your budget per person for flights?",
               param |-> "budget", type |-> "number"]>>
       ELSE IF "origin" \in missing
       THEN <<[question |-> "Where will you be flying from?",
               param |-> "origin", type |-> "text"]>>
       ELSE <<[question |-> "How many adults are traveling?",
               param |-> "adults", type |-> "number"]>>

\* Lines 111-148: None, or the question for the first parameter missing.  The
\* budget question ends with a summary of the parameters known, left out
\* here.
generate_clarifying_question(p) ==
    LET missing == {get_missing_params(p)[i] :
                       i \in 1..Len(get_missing_params(p))}
    IN IF missing = {} THEN <<>>
       ELSE IF "origin" \in missing
       THEN <<[question |-> "Where will you be flying from?",
               param |-> "origin", type |-> "text"]>>
       ELSE IF "budget" \in missing
       THEN <<[question |-> "What's your budget per person for flights?",
               param |-> "budget", type |-> "number"]>>
       ELSE IF "adults" \in missing
       THEN <<[question |-> "How many adults are traveling?",
               param |-> "adults", type |-> "number"]>>
       ELSE <<>>

\* Lines 175-193: the dict returned for the parameters as parsed.
TripResponse(p) ==
    IF get_missing_params(p) = <<>>
    THEN [message |-> "Perfect!", ready_to_search |-> TRUE, params |-> p,
          next_question |-> <<>>]
    ELSE [message |-> generate_clarifying_question(p)[1].question,
          ready_to_search |-> FALSE, params |-> p,
          next_question |-> generate_clarifying_question(p)]

\* Lines 169-193, on one message.
Respond(user_message) ==
    /\ trip_history' = Append(trip_history, user_message)
    /\ extracted_params' = parse_user_input(extracted_params, user_message)
    /\ trip_response' = <<TripResponse(extracted_params')>>

\* What the user writes: the opening messages, and answers to the three
\* questions (lines 235-238 and the examples of lines 128-145).
Openings ==
    {<<"B", "e", "a", "c", "h", " ", "t", "r", "i", "p", " ", "w", "i", "t", "h", " ", "m", "y", " ", "f", "a", "m", "i", "l", "y">>,
     <<"a", " ", "c", "h", "e", "a", "p", " ", "t", "r", "i", "p", " ", "w", "i", "t", "h", " ", "t", "h", "e", " ", "k", "i", "d", "s">>,
     <<"S", "k", "i", "i", "n", "g", ",", " ", "b", "u", "s", "i", "n", "e", "s", "s", " ", "c", "l", "a", "s", "s">>}

Answers ==
    [origin |-> {<<"S", "y", "d", "n", "e", "y">>,
                <<"N", "e", "w", " ", "Y", "o", "r", "k">>,
                <<"L", "o", "n", "d", "o", "n">>},
     budget |-> {<<"1", "2", "0", "0">>,
                <<"$", "5", "0", "0">>},
     adults |-> {<<"2">>,
                <<"1">>}]

Messages == Openings \cup {<<"S", "y", "d", "n", "e", "y">>,
                        <<"1", "2", "0", "0">>,
                        <<"2">>}

\* generate_response(user_message), lines 162-193.
generate_response ==
    /\ trip_pc = "on"
    /\ Len(trip_history) < MaxParsed
    /\ \E user_message \in Messages : Respond(user_message)
    /\ UNCHANGED trip_pc
    /\ UNCHANGED <<enrichVars, dataVars, plannerVars, dealsVars, searchVars,
                   calendarVars, regionVars, chatVars, weatherVars, agentVars>>

\* set_param_from_answer(param_name, value), lines 220-224, with the value
\* of an answer: a city, a budget in dollars, a number of travellers.
set_param_from_answer ==
    /\ trip_pc = "on"
    /\ \E param_name \in {"origin", "budget", "adults", "children"} :
          \E value \in CASE param_name = "origin" -> {<<"S", "y", "d", "n", "e", "y">>}
                         [] param_name = "budget" -> {1200}
                         [] param_name = "adults" -> {1}
                         [] param_name = "children" -> {0, 1} :
              extracted_params' =
                  [extracted_params EXCEPT ![param_name] = <<value>>]
    /\ UNCHANGED <<trip_history, trip_response, trip_pc>>
    /\ UNCHANGED <<enrichVars, dataVars, plannerVars, dealsVars, searchVars,
                   calendarVars, regionVars, chatVars, weatherVars, agentVars>>

NextTrip == generate_response \/ set_param_from_answer

\* __init__, lines 15-29.
InitTrip ==
    /\ extracted_params = NoneParams
    /\ trip_history = <<>>
    /\ trip_response = <<>>
    /\ trip_pc = "on"
    /\ filtered_df = <<>>
    /\ df_columns = {}
    /\ enriched = FALSE
    /\ today = 0
    /\ planner = <<>>
    /\ planner_df = <<>>
    /\ top_deals = <<>>
    /\ planner_pc = "off"
    /\ deals = <<>>
    /\ deals_df = <<>>
    /\ cabin_deals = <<>>
    /\ deals_pc = "off"
    /\ airports_dict = <<>>
    /\ input_file = <<>>
    /\ flight_data = <<>>
    /\ output_file = <<>>
    /\ idx = 0
    /\ enriched_count = 0
    /\ pc = "off"
    /\ agent_df = <<>>
    /\ agent_columns = {}
    /\ agent_dests = <<>>
    /\ params = <<>>
    /\ search_result = <<>>
    /\ search_pc = "off"
    /\ cal_date = 0
    /\ cal_country = ""
    /\ cal_period = ""
    /\ cal_season = ""
    /\ cal_matches = FALSE
    /\ cal_pc = "off"
    /\ region_countries = <<>>
    /\ region_tags = <<>>
    /\ region_pc = "off"
    /\ conversation_history = <<>>
    /\ chat_response = <<>>
    /\ chat_pc = "off"
    /\ weather_cache = <<>>
    /\ api_requests = <<>>
    /\ weather_call = <<>>
    /\ weather_returned = <<>>
    /\ agent_history = <<>>
    /\ agent_response = <<>>

\* The conversation of the test (lines 231-253): an opening message, then,
\* as long as the agent is not ready to search, the answer to the question
\* it has just asked, given to generate_response.
OpeningMessage ==
    /\ trip_pc = "talk"
    /\ trip_history = <<>>
    /\ \E user_message \in Openings : Respond(user_message)
    /\ UNCHANGED trip_pc
    /\ UNCHANGED <<enrichVars, dataVars, plannerVars, dealsVars, searchVars,
                   calendarVars, regionVars, chatVars, weatherVars, agentVars>>

AnswerQuestion ==
    /\ trip_pc = "talk"
    /\ trip_response # <<>>
    /\ ~trip_response[1].ready_to_search
    /\ Len(trip_history) < MaxTurns
    /\ \E answer \in Answers[trip_response[1].next_question[1].param] :
          Respond(answer)
    /\ UNCHANGED trip_pc
    /\ UNCHANGED <<enrichVars, dataVars, plannerVars, dealsVars, searchVars,
                   calendarVars, regionVars, chatVars, weatherVars, agentVars>>

NextTalk == OpeningMessage \/ AnswerQuestion

InitTalk ==
    /\ extracted_params = NoneParams
    /\ trip_history = <<>>
    /\ trip_response = <<>>
    /\ trip_pc = "talk"
    /\ filtered_df = <<>>
    /\ df_columns = {}
    /\ enriched = FALSE
    /\ today = 0
    /\ planner = <<>>
    /\ planner_df = <<>>
    /\ top_deals = <<>>
    /\ planner_pc = "off"
    /\ deals = <<>>
    /\ deals_df = <<>>
    /\ cabin_deals = <<>>
    /\ deals_pc = "off"
    /\ airports_dict = <<>>
    /\ input_file = <<>>
    /\ flight_data = <<>>
    /\ output_file = <<>>
    /\ idx = 0
    /\ enriched_count = 0
    /\ pc = "off"
    /\ agent_df = <<>>
    /\ agent_columns = {}
    /\ agent_dests = <<>>
    /\ params = <<>>
    /\ search_result = <<>>
    /\ search_pc = "off"
    /\ cal_date = 0
    /\ cal_country = ""
    /\ cal_period = ""
    /\ cal_season = ""
    /\ cal_matches = FALSE
    /\ cal_pc = "off"
    /\ region_countries = <<>>
    /\ region_tags = <<>>
    /\ region_pc = "off"
    /\ conversation_history = <<>>
    /\ chat_response = <<>>
    /\ chat_pc = "off"
    /\ weather_cache = <<>>
    /\ api_requests = <<>>
    /\ weather_call = <<>>
    /\ weather_returned = <<>>
    /\ agent_history = <<>>
    /\ agent_response = <<>>

----------------------------------------------------------------------------
(* weather_service.py *)

\* The requests sent to the API.
MaxRequests == 4

\* The arguments of the calls: latitude and longitude in thousandths of a
\* degree and the month (lines 183-185).  The cache key of line 39 writes
\* the three numbers out, so that different arguments have different keys.
ClimateKeys == {<<-8748, 115167, 12>>, <<35765, 140386, 1>>,
                <<49013, 2550, 7>>}

\* What the API comes to (lines 74-85): a reply with daily temperatures,
\* whose mean is avg (tenths of a degree), or an exception: the request
\* fails, or the reply lacks the temperatures.
ApiReplies == {[ok |-> TRUE, avg |-> 271], [ok |-> TRUE, avg |-> 52],
               [ok |-> FALSE, avg |-> 0]}

\* get_monthly_climate writing a cache that holds the new result only.
get_monthly_climate_keeps_last_only(cache, cache_key, reply, now) ==
    IF cache_key \in DOMAIN cache
    THEN [returned |-> <<cache[cache_key]>>, cache |-> cache,
          requested |-> FALSE]
    ELSE IF reply.ok
    THEN LET result == [avg |-> reply.avg, source |-> "Open-Meteo",
                        fetched_at |-> now]
         IN [returned |-> <<result>>,
             cache |-> (cache_key :> result),
             requested |-> TRUE]
    ELSE [returned |-> <<>>, cache |-> cache, requested |-> TRUE]

\* get_monthly_climate storing a result for a request that failed.
get_monthly_climate_caches_failure(cache, cache_key, reply, now) ==
    IF cache_key \in DOMAIN cache
    THEN [returned |-> <<cache[cache_key]>>, cache |-> cache,
          requested |-> FALSE]
    ELSE IF reply.ok
    THEN LET result == [avg |-> reply.avg, source |-> "Open-Meteo",
                        fetched_at |-> now]
         IN [returned |-> <<result>>,
             cache |-> (cache_key :> result) @@ cache,
             requested |-> TRUE]
    ELSE [returned |-> <<>>,
          cache |-> (cache_key :> [avg |-> 0, source |-> "none",
                                   fetched_at |-> now]) @@ cache,
          requested |-> TRUE]

\* Lines 38-107: what a call returns, the cache file it leaves, and whether
\* it sent a request, given the cache file it loads, the reply of the API
\* and the time.  Of the result, max, min and desc come from the same reply
\* as avg and are left out.
get_monthly_climate(cache, cache_key, reply, now) ==
    IF cache_key \in DOMAIN cache
    THEN [returned |-> <<cache[cache_key]>>, cache |-> cache,
          requested |-> FALSE]
    ELSE IF reply.ok
    THEN LET result == [avg |-> reply.avg, source |-> "Open-Meteo",
                        fetched_at |-> now]
         IN [returned |-> <<result>>,
             cache |-> (cache_key :> result) @@ cache,
             requested |-> TRUE]
    ELSE [returned |-> <<>>, cache |-> cache, requested |-> TRUE]

\* A call of get_monthly_climate(latitude, longitude, month).
CallClimate ==
    \E cache_key \in ClimateKeys, reply \in ApiReplies :
        LET call == get_monthly_climate(weather_cache, cache_key, reply,
                                        Len(api_requests) + 1)
        IN /\ call.requested => Len(api_requests) < MaxRequests
           /\ weather_call' = <<cache_key>>
           /\ weather_returned' = call.returned
           /\ weather_cache' = call.cache
           /\ api_requests' =
                  IF call.requested
                  THEN Append(api_requests,
                              [cache_key |-> cache_key, ok |-> reply.ok])
                  ELSE api_requests
           /\ UNCHANGED <<enrichVars, dataVars, plannerVars, dealsVars,
                          searchVars, calendarVars, regionVars, chatVars,
                          tripVars, agentVars>>

\* No cache file yet (line 19).
InitWeather ==
    /\ weather_cache = <<>>
    /\ api_requests = <<>>
    /\ weather_call = <<>>
    /\ weather_returned = <<>>
    /\ filtered_df = <<>>
    /\ df_columns = {}
    /\ enriched = FALSE
    /\ today = 0
    /\ planner = <<>>
    /\ planner_df = <<>>
    /\ top_deals = <<>>
    /\ planner_pc = "off"
    /\ deals = <<>>
    /\ deals_df = <<>>
    /\ cabin_deals = <<>>
    /\ deals_pc = "off"
    /\ airports_dict = <<>>
    /\ input_file = <<>>
    /\ flight_data = <<>>
    /\ output_file = <<>>
    /\ idx = 0
    /\ enriched_count = 0
    /\ pc = "off"
    /\ agent_df = <<>>
    /\ agent_columns = {}
    /\ agent_dests = <<>>
    /\ params = <<>>
    /\ search_result = <<>>
    /\ search_pc = "off"
    /\ cal_date = 0
    /\ cal_country = ""
    /\ cal_period = ""
    /\ cal_season = ""
    /\ cal_matches = FALSE
    /\ cal_pc = "off"
    /\ region_countries = <<>>
    /\ region_tags = <<>>
    /\ region_pc = "off"
    /\ conversation_history = <<>>
    /\ chat_response = <<>>
    /\ chat_pc = "off"
    /\ extracted_params = <<>>
    /\ trip_history = <<>>
    /\ trip_response = <<>>
    /\ trip_pc = "off"
    /\ agent_history = <<>>
    /\ agent_response = <<>>

----------------------------------------------------------------------------
(* gemini_agent.py: GeminiTripAgent *)

\* The calls of chat whose history is followed.
MaxCalls == 3

\* What the user types (lines 195-199).
UserMessages == {"From Sydney", "Budget is around $1200 per person"}

\* What the request comes to (lines 130-165): an exception of the request
\* or of the reading of the reply, a text that is not JSON, or the parsed
\* reply, <<>> where it lacks a field.
GeminiReplies ==
    {[error |-> "RequestException", parsed |-> <<>>],
     [error |-> "JSONDecodeError", parsed |-> <<>>]}
    \cup {[error |-> "",
           parsed |-> [message |-> message, ready_to_search |-> ready]] :
              message \in {<<>>, <<"Where will you be flying from?">>,
                           <<"Perfect! Let me find flights">>},
              ready \in {<<>>, <<TRUE>>, <<FALSE>>}}

\* Lines 176-182: the fallback response; the message carries the error.
Fallback(error) ==
    [message |-> <<"I'm having trouble understanding">>,
     ready_to_search |-> <<FALSE>>, error |-> error]

\* Lines 112-182.  The reply is parsed at line 165; the user entry is
\* appended at line 168, before line 169 reads agent_response['message'],
\* which raises KeyError on a reply without the field; the except of line
\* 173 returns the fallback and puts nothing back.
GeminiTripAgent_chat ==
    \E user_message \in UserMessages, reply \in GeminiReplies :
        /\ Len(agent_history) < 2 * MaxCalls
        /\ LET user == [role |-> "user", content |-> user_message]
           IN IF reply.error # ""
              THEN /\ agent_response' = <<Fallback(reply.error)>>
                   /\ agent_history' = agent_history
              ELSE IF reply.parsed.message = <<>>
              THEN /\ agent_response' = <<Fallback("KeyError")>>
                   /\ agent_history' = Append(agent_history, user)
              ELSE /\ agent_response' =
                          <<[message |-> reply.parsed.message,
                             ready_to_search |->
                                 reply.parsed.ready_to_search,
                             error |-> ""]>>
                   /\ agent_history' =
                          agent_history \o
                          <<user, [role |-> "assistant",
                                   content |-> reply.parsed.message[1]]>>
        /\ UNCHANGED <<enrichVars, dataVars, plannerVars, dealsVars,
                      searchVars, calendarVars, regionVars, chatVars,
                      tripVars, weatherVars>>

\* Lines 184-186.
reset_conversation ==
    /\ agent_history # <<>>
    /\ agent_history' = <<>>
    /\ UNCHANGED agent_response
    /\ UNCHANGED <<enrichVars, dataVars, plannerVars, dealsVars,
                      searchVars, calendarVars, regionVars, chatVars,
                      tripVars, weatherVars>>

NextAgent == GeminiTripAgent_chat \/ reset_conversation

\* Lines 108-110.
InitAgent ==
    /\ agent_history = <<>>
    /\ agent_response = <<>>
    /\ filtered_df = <<>>
    /\ df_columns = {}
    /\ enriched = FALSE
    /\ today = 0
    /\ planner = <<>>
    /\ planner_df = <<>>
    /\ top_deals = <<>>
    /\ planner_pc = "off"
    /\ deals = <<>>
    /\ deals_df = <<>>
    /\ cabin_deals = <<>>
    /\ deals_pc = "off"
    /\ airports_dict = <<>>
    /\ input_file = <<>>
    /\ flight_data = <<>>
    /\ output_file = <<>>
    /\ idx = 0
    /\ enriched_count = 0
    /\ pc = "off"
    /\ agent_df = <<>>
    /\ agent_columns = {}
    /\ agent_dests = <<>>
    /\ params = <<>>
    /\ search_result = <<>>
    /\ search_pc = "off"
    /\ cal_date = 0
    /\ cal_country = ""
    /\ cal_period = ""
    /\ cal_season = ""
    /\ cal_matches = FALSE
    /\ cal_pc = "off"
    /\ region_countries = <<>>
    /\ region_tags = <<>>
    /\ region_pc = "off"
    /\ conversation_history = <<>>
    /\ chat_response = <<>>
    /\ chat_pc = "off"
    /\ extracted_params = <<>>
    /\ trip_history = <<>>
    /\ trip_response = <<>>
    /\ trip_pc = "off"
    /\ weather_cache = <<>>
    /\ api_requests = <<>>
    /\ weather_call = <<>>
    /\ weather_returned = <<>>

----------------------------------------------------------------------------
(* Specifications *)

\* The enrichment script, run once on some input file.
SpecEnrich == InitEnrich /\ [][NextEnrich]_vars

\* The Trip Planner tab, run again whenever the form changes.
SpecPlanner == InitPlanner /\ [][NextPlanner]_vars

\* The Trip Planner tab or the Deals tab.
SpecDashboard == InitDashboard /\ [][NextDashboard]_vars

\* The search tool of the agent, called again and again.
SpecSearch == InitSearch /\ [][NextSearch]_vars

\* The Trip Planner tab or the search tool.
SpecMatch == InitMatch /\ [][NextMatch]_vars

\* get_season or check_school_period, called once on some arguments.
SpecCalendar == InitCalendar /\ [][NextCalendar]_vars

\* classify_region, called on the countries of a route.
SpecRegion == InitRegion /\ [][ClassifyRegions]_vars

\* A conversation with the tool-calling agent.
SpecChat == InitChat /\ [][NextChat]_vars

\* The keyword agent, given messages and answers in any order.
SpecTrip == InitTrip /\ [][NextTrip]_vars

\* The keyword agent in the conversation of its test; the user goes on
\* answering as long as a question is open.
SpecTalk ==
    /\ InitTalk
    /\ [][NextTalk]_vars
    /\ WF_vars(OpeningMessage)
    /\ WF_vars(AnswerQuestion)

\* Calls of get_monthly_climate, one after the other.
SpecWeather == InitWeather /\ [][CallClimate]_vars

\* Calls of GeminiTripAgent.chat and resets of the conversation.
SpecAgent == InitAgent /\ [][NextAgent]_vars

----------------------------------------------------------------------------
(* Claims about the enrichment script, under SpecEnrich *)

\* A record cut to the fields of the input file.
Raw(route) == [f \in RawFields |-> route[f]]

Unresolved(i) == ~Resolves(input_file[i])

\* C1: enrichment is total and length-preserving: on every input the script
\* runs to its end without raising, and the collection it writes has as many
\* records as the input file, the i-th written record being the i-th input
\* route.
C1_EnrichmentTotalAndLengthPreserving ==
    /\ pc # "raised"
    /\ pc = "done" =>
          /\ Len(output_file[1]) = Len(input_file)
          /\ \A i \in 1..Len(input_file) : Raw(output_file[1][i]) = input_file[i]

\* C2: a route whose origin or destination is not in the airport table is
\* passed over: the pass raises nothing, moves on to the next route, and the
\* route keeps its raw fields only, in memory and in the file written.
C2_UnresolvedRouteKeptRaw ==
    /\ \A i \in 1..Len(input_file) :
          Unresolved(i) =>
              /\ flight_data[i] = input_file[i]
              /\ DOMAIN flight_data[i] \cap DerivedFields = {}
              /\ pc = "done" => output_file[1][i] = input_file[i]
              /\ ~(pc = "raised" /\ idx = i)
    /\ (pc = "enrich" /\ idx <= Len(input_file) /\ Unresolved(idx)) =>
          /\ ~LoopBody(flight_data[idx]).raised
          /\ ~LoopBody(flight_data[idx]).enriched

\* C2 witness: the script has passed over an unresolved route and gone on to
\* enrich the route after it.
C2_Witness ==
    /\ pc = "done"
    /\ Len(input_file) = 2
    /\ Unresolved(1)
    /\ DerivedFields \subseteq DOMAIN output_file[1][2]

OffsetOrZero(code) ==
    IF airports_dict[code].timezone.nan THEN 0
    ELSE airports_dict[code].timezone.v

\* A resolved route one of whose airports has no UTC offset in the table.
OffsetMissing(route) ==
    /\ Resolves(route)
    /\ \/ airports_dict[route.origin].timezone.nan
       \/ airports_dict[route.destination].timezone.nan

\* C22 as claimed: the script never fails on a route; every resolved route
\* it has passed carries timezone_diff, the destination's UTC offset minus
\* the origin's in whole hours, cut toward zero with its sign kept, an
\* offset missing from the table counting as 0.
C22_MissingOffsetTakenAsZero ==
    /\ pc # "raised"
    /\ \A i \in 1..Len(flight_data) :
          (Resolves(input_file[i]) /\ i < idx) =>
              /\ "timezone_diff" \in DOMAIN flight_data[i]
              /\ flight_data[i].timezone_diff =
                     IntTrunc(OffsetOrZero(flight_data[i].destination)
                                  - OffsetOrZero(flight_data[i].origin),
                              TzUnit)

\* distance_km - distance_miles / 0.621371, in millionths of a mile:
\* distance_km * 0.621371 - distance_miles, formed so that no intermediate
\* value leaves 32 bits.
KmLessMiles(route) ==
    1000 * (route.distance_km * 621 - route.distance_miles * 1000)
        + route.distance_km * 371

\* The routes the loop has enriched.
EnrichedRoutes ==
    {i \in 1..Len(flight_data) : DerivedFields \subseteq DOMAIN flight_data[i]}

----------------------------------------------------------------------------
(* Claims about the Trip Planner tab, the Deals tab and the search tool *)

Shown == planner_pc = "shown"

\* The rows of the loaded frame an origin-season (destination-season) request
\* asks for: those whose season at the origin (destination) on the travel
\* date is the season requested.
OriginSeasonRows(df, season) ==
    {df[i].id : i \in {j \in 1..Len(df) :
        get_season(df[j].travel_date, RowGet(df[j], "origin_country")) = season}}

DestSeasonRows(df, season) ==
    {df[i].id : i \in {j \in 1..Len(df) :
        get_season(df[j].travel_date, RowGet(df[j], "dest_country")) = season}}

\* The rows each of the six optional predicates admits when it alone is
\* applied to the loaded frame.
TripTypeRows == Ids(TripTypeFilter(filtered_df, planner.trip_type))
StopsRows == Ids(StopsFilter(filtered_df, planner.stops))
TravelPeriodRows ==
    Ids(TravelPeriodFilter(filtered_df, planner.travel_period, today))
SchoolRows == Ids(SchoolFilter(filtered_df, planner.school_region))
OriginRows ==
    {filtered_df[i].id : i \in {j \in 1..Len(filtered_df) :
        filtered_df[j].origin = planner.origin}}
CabinRows ==
    {filtered_df[i].id : i \in {j \in 1..Len(filtered_df) :
        filtered_df[j].cabin_class = planner.cabin}}
BudgetRows ==
    {filtered_df[i].id : i \in {j \in 1..Len(filtered_df) :
        filtered_df[j].price_avg <= planner.budget}}

\* C4 as claimed: the result is the intersection of the rows each predicate
\* admits on its own, a season predicate admitting the rows of the requested
\* season whenever a season is requested, and every row when it is not.
C4_ResultIsIntersectionOfPredicates ==
    Shown =>
        /\ Ids(planner_df) =
              OriginRows \cap CabinRows \cap BudgetRows \cap TripTypeRows
              \cap StopsRows \cap TravelPeriodRows \cap SchoolRows
              \cap (IF planner.origin_season = "All Seasons"
                    THEN Ids(filtered_df)
                    ELSE OriginSeasonRows(filtered_df, planner.origin_season))
              \cap (IF planner.dest_season = "All Seasons"
                    THEN Ids(filtered_df)
                    ELSE DestSeasonRows(filtered_df, planner.dest_season))
        /\ Len(planner_df) = Cardinality(Ids(planner_df))

\* The forms that differ from a form by one more predicate set or by a lower
\* budget.
AllValue ==
    [trip_type |-> "All", stops |-> "All", travel_period |-> "All Months",
     origin_season |-> "All Seasons", dest_season |-> "All Seasons",
     school_region |-> "All Periods"]

TighterForms(form) ==
    {[form EXCEPT ![w] = v] :
        <<w, v>> \in {<<w, v>> \in
                        UNION {{<<x, y>> : y \in FormValues[x]} :
                                   x \in DOMAIN AllValue} :
                        /\ form[w] = AllValue[w]
                        /\ v # AllValue[w]}}
    \cup {[form EXCEPT !.budget = b] :
              b \in {x \in FormBudgets : x < form.budget}}

\* The requests that differ from a request by one more filter keyword or by
\* a lower budget.
TighterParams(p) ==
    {[p EXCEPT !.origin = v] :
        v \in {x \in {y.origin : y \in ParamSpace} : p.origin = <<>> /\ x # <<>>}}
    \cup {[p EXCEPT !.cabin_class = v] :
        v \in {x \in {y.cabin_class : y \in ParamSpace} :
                   p.cabin_class = <<>> /\ x # <<>>}}
    \cup {[p EXCEPT !.trip_type = v] :
        v \in {x \in {y.trip_type : y \in ParamSpace} :
                   p.trip_type = <<>> /\ x # <<>>}}
    \cup {[p EXCEPT !.budget_per_person = v] :
        v \in {x \in {y.budget_per_person : y \in ParamSpace} :
                   /\ x # <<>>
                   /\ \/ p.budget_per_person = <<>>
                      \/ x[1] < p.budget_per_person[1]}}

Entries(flights) == {flights[i] : i \in 1..Len(flights)}

\* The planner's half of C5: a tighter form keeps a subset of the rows.
PlannerMonotone ==
    Shown =>
        \A form \in TighterForms(planner) :
            Ids(PlannerFilter(filtered_df, df_columns, enriched, today, form))
                \subseteq Ids(planner_df)

\* The search tool's half of C5: the flights a tighter request returns are
\* among the flights returned.
SearchMonotone ==
    (search_pc = "returned" /\ search_result.raised = "") =>
        \A p \in {q \in TighterParams(params) :
                      ~OriginRaises(agent_columns, q)} :
            \A tighter \in SearchReturns(SearchFilter(agent_df, p, agent_dests),
                                         agent_columns, p) :
                Entries(tighter.flights) \subseteq Entries(search_result.flights)

\* C5 as claimed: matching is monotone: a request that adds a predicate to
\* another or lowers its budget returns a subset of what the other returns,
\* in the Trip Planner and in search_flights.
C5_MatchingIsMonotone == PlannerMonotone /\ SearchMonotone

\* The scored candidate sets on show: the planner's result, and the top
\* deals of each cabin class.
ScoredByPlanner == IF Shown THEN {planner_df} \ {<<>>} ELSE {}
ScoredByDeals ==
    IF deals_pc = "shown"
    THEN {cabin_deals[c] : c \in DOMAIN cabin_deals} \ {<<>>}
    ELSE {}

Hundred == Frac(100, 1)
Zero == Frac(0, 1)

Cheapest(df) ==
    {i \in 1..Len(df) : \A j \in 1..Len(df) : df[i].price_avg <= df[j].price_avg}
Dearest(df) ==
    {i \in 1..Len(df) : \A j \in 1..Len(df) : df[i].price_avg >= df[j].price_avg}
SeveralPrices(df) ==
    \E i, j \in 1..Len(df) : df[i].price_avg # df[j].price_avg

\* C6 as claimed, of one candidate set.
CheapestScoresHundred(df) ==
    /\ \A i \in Cheapest(df) : FracEq(df[i].value_score, Hundred)
    /\ SeveralPrices(df) =>
          \A i \in Dearest(df) : FracLess(df[i].value_score, Hundred)

DearestScoresZero(df) ==
    /\ \A i \in Dearest(df) : FracEq(df[i].value_score, Zero)
    /\ \A i \in Cheapest(df) :
          /\ FracLess(df[i].value_score, Hundred)
          /\ \A j \in 1..Len(df) : ~FracLess(df[i].value_score, df[j].value_score)
          /\ SeveralPrices(df) => FracLess(Zero, df[i].value_score)
          /\ FracEq(df[i].value_score,
                    Frac(100 * (PriceMax(df) - df[i].price_avg), PriceMax(df)))

ScoreInRangeAndDecreasing(df) ==
    /\ \A i \in 1..Len(df) :
          /\ ~FracLess(df[i].value_score, Zero)
          /\ ~FracLess(Hundred, df[i].value_score)
    /\ \A i, j \in 1..Len(df) :
          df[i].price_avg > df[j].price_avg =>
              FracLess(df[i].value_score, df[j].value_score)

\* C7: in every candidate set (prices are positive) each value score lies
\* in 0..100, and of two routes the one of strictly higher price_avg has the
\* strictly lower score.
C7_ScoreInRangeAndDecreasing ==
    /\ \A df \in ScoredByPlanner \cup ScoredByDeals :
          \A i \in 1..Len(df) : df[i].price_avg > 0
    /\ \A df \in ScoredByPlanner : ScoreInRangeAndDecreasing(df)
    /\ \A df \in ScoredByDeals : ScoreInRangeAndDecreasing(df)

\* C7 witness: the planner shows routes of three different prices.
C7_Witness ==
    /\ Shown
    /\ \E i, j, k \in 1..Len(planner_df) :
          /\ planner_df[i].price_avg < planner_df[j].price_avg
          /\ planner_df[j].price_avg < planner_df[k].price_avg

\* (year, month, day) before or the same
DateLeq(a, b) ==
    \/ a[1] < b[1]
    \/ a[1] = b[1] /\ a[2] < b[2]
    \/ a[1] = b[1] /\ a[2] = b[2] /\ a[3] <= b[3]

\* C8 as claimed: results come in descending value score (ascending price
\* from search_flights), ties broken by ascending price_avg and then by
\* ascending travel date, so that two routes of equal price are in
\* travel-date order.
C8_TiesInTravelDateOrder ==
    /\ Shown =>
          \A i, j \in 1..Len(planner_df) :
              i < j =>
                  \/ FracLess(planner_df[j].value_score, planner_df[i].value_score)
                  \/ /\ FracEq(planner_df[j].value_score, planner_df[i].value_score)
                     /\ planner_df[i].price_avg = planner_df[j].price_avg
                     /\ planner_df[i].travel_date <= planner_df[j].travel_date
    /\ search_pc = "returned" =>
          \A i, j \in 1..Len(search_result.flights) :
              i < j =>
                  \/ search_result.flights[i].price < search_result.flights[j].price
                  \/ /\ search_result.flights[i].price = search_result.flights[j].price
                     /\ DateLeq(search_result.flights[i].travel_date,
                                search_result.flights[j].travel_date)

\* C8 amended: results are ordered by price alone: the planner's rows by
\* descending value score, which is ascending price_avg, and the flights of
\* search_flights by ascending price; the order of routes of equal price is
\* not fixed, and need not be the order of their travel dates.
C8_OrderedByPriceAlone ==
    /\ Shown =>
          \A i, j \in 1..Len(planner_df) :
              i < j =>
                  /\ ~FracLess(planner_df[i].value_score, planner_df[j].value_score)
                  /\ planner_df[i].price_avg <= planner_df[j].price_avg
    /\ Shown => top_deals = head(planner_df, 10)
    /\ search_pc = "returned" =>
          \A i, j \in 1..Len(search_result.flights) :
              i < j =>
                  search_result.flights[i].price <= search_result.flights[j].price

\* C8 witness: search_flights has returned two flights of equal price, the
\* one that flies later first.
C8_Witness ==
    /\ search_pc = "returned"
    /\ \E i, j \in 1..Len(search_result.flights) :
          /\ i < j
          /\ search_result.flights[i].price = search_result.flights[j].price
          /\ ~DateLeq(search_result.flights[i].travel_date,
                      search_result.flights[j].travel_date)
    /\ \E i, j \in 1..Len(search_result.flights) :
          search_result.flights[i].price < search_result.flights[j].price

\* C9 as claimed: a request that lacks origin or budget fails with
\* InvalidRequest; the field is never taken as "no filter".
C9_MissingFieldIsInvalidRequest ==
    (/\ search_pc = "returned"
     /\ params.origin = <<>> \/ params.budget_per_person = <<>>) =>
        search_result.raised = "InvalidRequest"

\* C10 as claimed: under "2+ stops OK" the result holds the rows it holds
\* under "All", in the Trip Planner and in the Deals tab.
C10_TwoPlusStopsIsAll ==
    /\ (Shown /\ planner.stops = "2+ stops OK") =>
          Ids(planner_df) =
              Ids(PlannerFilter(filtered_df, df_columns, enriched, today,
                                [planner EXCEPT !.stops = "All"]))
    /\ (deals_pc = "shown" /\ deals.stops = "2+ stops OK") =>
          \A unconstrained \in
                DealsSort(DealsFilter(filtered_df, df_columns, enriched, today,
                                      [deals EXCEPT !.stops = "All"]),
                          df_columns, deals.sort_by) :
              Ids(deals_df) = Ids(unconstrained)

\* The rows the planner would show with one widget of its form set otherwise,
\* and a row of the loaded frame by its id.
PlannerWith(widget, value) ==
    Ids(PlannerFilter(filtered_df, df_columns, enriched, today,
                      [planner EXCEPT ![widget] = value]))

RowOf(id) == CHOOSE row \in RowSet(filtered_df) : row.id = id

\* A route has sample-flight detail that names at most n stops.
HasStopsAtMost(row, n) ==
    /\ row.sample_flight.kind = "dict"
    /\ row.sample_flight.stops # <<>>
    /\ row.sample_flight.stops[1] <= n

\* C11: under "Direct only" a route is admitted iff it has sample-flight
\* detail with stops = 0, under "1 stop max" iff it has detail with
\* stops <= 1; a route without detail, or whose detail names no stop count,
\* is excluded under both.
C11_StopsNeedSampleFlightDetail ==
    /\ (Shown /\ planner.stops = "Direct only") =>
          /\ Ids(planner_df) =
                {id \in PlannerWith("stops", "All") :
                     /\ HasStopsAtMost(RowOf(id), 0)
                     /\ RowOf(id).sample_flight.stops[1] = 0}
    /\ (Shown /\ planner.stops = "1 stop max") =>
          /\ Ids(planner_df) =
                {id \in PlannerWith("stops", "All") : HasStopsAtMost(RowOf(id), 1)}
    /\ (Shown /\ planner.stops \in {"Direct only", "1 stop max"}) =>
          \A i \in 1..Len(planner_df) :
              /\ planner_df[i].sample_flight.kind # "nan"
              /\ planner_df[i].sample_flight.stops # <<>>

\* C11 witness: "Direct only" shows a direct route and leaves out a route
\* without sample-flight detail, a route whose detail names no stop count
\* and a route of two stops.
C11_Witness ==
    /\ Shown
    /\ planner.stops = "Direct only"
    /\ planner_df # <<>>
    /\ \E a, b, c \in PlannerWith("stops", "All") \ Ids(planner_df) :
          /\ RowOf(a).sample_flight.kind = "nan"
          /\ RowOf(b).sample_flight.kind = "dict"
          /\ RowOf(b).sample_flight.stops = <<>>
          /\ RowOf(c).sample_flight.stops = <<2>>

\* The rows the Deals tab would keep with one widget of its form set
\* otherwise.
DealsWith(widget, value) ==
    Ids(CHOOSE sorted \in
            DealsSort(DealsFilter(filtered_df, df_columns, enriched, today,
                                  [deals EXCEPT ![widget] = value]),
                      df_columns, deals.sort_by) : TRUE)

\* The travel-window predicate as C12 words it.
InWindow(period, travel_date, now) ==
    CASE period = "Next 3 Months" -> travel_date <= now + 90
      [] period = "Next 6 Months" -> travel_date <= now + 180
      [] period = "After 6 Months" -> travel_date > now + 180
      [] OTHER -> TRUE

IdsInWindow(period, now) ==
    {filtered_df[i].id : i \in {j \in 1..Len(filtered_df) :
        InWindow(period, filtered_df[j].travel_date, now)}}

\* C12: at any time now, a route is admitted under "Next 3 Months" iff
\* travel_date <= now + 90 days, under "Next 6 Months" iff travel_date <=
\* now + 180 days, under "After 6 Months" iff travel_date > now + 180 days,
\* and always under "All Months", in the Trip Planner and in the Deals tab;
\* so every route is admitted by exactly one of "Next 6 Months" and "After 6
\* Months", and what "Next 3 Months" admits "Next 6 Months" admits.
C12_TravelWindow ==
    /\ \A now \in Nows :
          /\ \A period \in TravelPeriods :
                /\ Ids(TravelPeriodFilter(filtered_df, period, now)) =
                      IdsInWindow(period, now)
                /\ Ids(DealsTravelPeriodFilter(filtered_df, period, now)) =
                      IdsInWindow(period, now)
          /\ \A Filter \in {"planner", "deals"} :
                LET Kept(period) ==
                        IF Filter = "planner"
                        THEN Ids(TravelPeriodFilter(filtered_df, period, now))
                        ELSE Ids(DealsTravelPeriodFilter(filtered_df, period, now))
                IN /\ Kept("Next 6 Months") \cap Kept("After 6 Months") = {}
                   /\ Kept("Next 6 Months") \cup Kept("After 6 Months") =
                         Ids(filtered_df)
                   /\ Kept("Next 3 Months") \subseteq Kept("Next 6 Months")
                   /\ Kept("All Months") = Ids(filtered_df)
    /\ Shown =>
          Ids(planner_df) =
              {id \in PlannerWith("travel_period", "All Months") :
                   InWindow(planner.travel_period, RowOf(id).travel_date, today)}
    /\ deals_pc = "shown" =>
          Ids(deals_df) =
              {id \in DealsWith("travel_period", "All Months") :
                   InWindow(deals.travel_period, RowOf(id).travel_date, today)}

\* C12 witness: under "Next 3 Months" the planner shows a route that flies
\* on the ninetieth day from now and leaves out a later one.
C12_Witness ==
    /\ Shown
    /\ planner.travel_period = "Next 3 Months"
    /\ \E i \in 1..Len(planner_df) : planner_df[i].travel_date = today + 90
    /\ PlannerWith("travel_period", "All Months") \ Ids(planner_df) # {}

\* The origin predicate as C13 words it: the code is the one asked for, or,
\* that failing, the frame has an origin city and it contains the text.
OriginAsClaimed(row, text, columns) ==
    \/ row.origin = upper(text)
    \/ /\ row.origin # upper(text)
       /\ "origin_city" \in columns
       /\ contains(row.origin_city, text)

Least(a, b) == IF a < b THEN a ELSE b

\* C13 as claimed: search_flights keeps a route under the origin predicate
\* iff its origin code is the requested origin or, only if that fails, its
\* origin city contains the requested text, whatever the case; on a frame
\* without an origin-city column the code alone decides, and the search
\* returns the matching routes.
C13_OriginByCodeElseCity ==
    (search_pc = "returned" /\ params.origin # <<>>) =>
        /\ search_result.raised = ""
        /\ search_result.found =
              Least(10,
                    Len(SearchTripTypeFilter(
                            CabinFilter(
                                BudgetFilter(
                                    Where(agent_df, LAMBDA row :
                                        OriginAsClaimed(row, params.origin[1],
                                                        agent_columns)),
                                    params),
                                params),
                            params, agent_dests)))

\* The airports of the destinations that carry a tag.
Tagged(dests, tag) == {a \in DOMAIN dests : tag \in dests[a].categories}

\* C14 as claimed: when a trip type other than "All" is requested, every
\* route returned flies to an airport of a destination whose tags hold the
\* trip type, and nothing is returned when no destination carries the tag;
\* in the Trip Planner and in search_flights.
C14_ReturnedRoutesCarryTripType ==
    /\ (Shown /\ planner.trip_type # "All") =>
          \A i \in 1..Len(planner_df) :
              planner_df[i].destination \in
                  Tagged(airport_to_dest, planner.trip_type)
    /\ (/\ search_pc = "returned"
        /\ search_result.raised = ""
        /\ params.trip_type # <<>>) =>
          search_result.found =
              Least(10,
                    Len(Where(CabinFilter(BudgetFilter(OriginFilter(agent_df,
                                                                    params),
                                                       params),
                                          params),
                              LAMBDA row :
                                  row.destination \in
                                      Tagged(agent_dests, params.trip_type[1]))))

\* The routes that pass every predicate of the request.
Passing == SearchFilter(agent_df, params, agent_dests)

\* C15 as claimed: a search that returns reports as its match count the
\* number of routes passing the filter, and its result lists every one of
\* them; nothing is cut off.
C15_FullFilteredListReturned ==
    (search_pc = "returned" /\ search_result.raised = "") =>
        /\ search_result.found = Len(Passing)
        /\ Len(search_result.flights) = Len(Passing)
        /\ \A i \in 1..Len(Passing) :
              \E j \in 1..Len(search_result.flights) :
                  search_result.flights[j] =
                      FlightEntry(Passing[i], agent_columns)

\* A route of the loaded frame whose origin or destination country is absent.
CountryAbsent(row) ==
    \/ RowGet(row, "origin_country") = TextNaN
    \/ RowGet(row, "dest_country") = TextNaN

\* C16 as claimed: with an origin-season or a destination-season filter set,
\* no route whose origin or destination country is absent is shown.
C16_UnresolvedExcludedUnderSeasonFilter ==
    (/\ Shown
     /\ \/ planner.origin_season # "All Seasons"
        \/ planner.dest_season # "All Seasons") =>
        \A i \in 1..Len(planner_df) : ~CountryAbsent(RowOf(planner_df[i].id))

----------------------------------------------------------------------------
(* Claims about get_season and check_school_period, under SpecCalendar *)

\* Two seasons half a year apart.
Opposite(a, b) == {a, b} \in {{"Winter", "Summer"}, {"Spring", "Fall"}}

\* The date six months on: the same day of the month, or the last day of a
\* shorter month.
SixMonthsOn(date) ==
    LET month == ((MonthOf(date) + 5) % 12) + 1
    IN Date(0, month, Least(DayOf(date), MonthLengths[month]))

\* C17: for every date and every country, northern or southern, the season
\* get_season returns and the season it gives six months on differ and are
\* an opposite pair: Winter with Summer, Spring with Fall.
C17_SeasonsSixMonthsApartAreOpposite ==
    cal_pc = "season_returned" =>
        /\ cal_season # get_season(SixMonthsOn(cal_date), cal_country)
        /\ Opposite(cal_season, get_season(SixMonthsOn(cal_date), cal_country))

\* A southern December, whose six months on is the June of the next year, and
\* a northern September.
C17_Witness ==
    /\ cal_pc = "season_returned"
    /\ \/ /\ cal_country = "Australia"
          /\ MonthOf(cal_date) = 12
          /\ cal_season = "Summer"
          /\ get_season(SixMonthsOn(cal_date), cal_country) = "Winter"
       \/ /\ cal_country = "France"
          /\ MonthOf(cal_date) = 9
          /\ cal_season = "Fall"
          /\ get_season(SixMonthsOn(cal_date), cal_country) = "Spring"

\* The seasons of the north by month, and the season half a year away.
NorthernSeason(month) ==
    CASE month \in {12, 1, 2} -> "Winter"
      [] month \in {3, 4, 5} -> "Spring"
      [] month \in {6, 7, 8} -> "Summer"
      [] month \in {9, 10, 11} -> "Fall"

OppositeOf(season) ==
    CASE season = "Winter" -> "Summer"
      [] season = "Summer" -> "Winter"
      [] season = "Spring" -> "Fall"
      [] season = "Fall" -> "Spring"

\* C18: get_season answers for every month and every country; a country of
\* the southern list gets the opposite of the northern season of the month
\* (Dec-Feb Summer, Mar-May Fall, Jun-Aug Winter, Sep-Nov Spring), every
\* other country and a missing country get the northern season; January is
\* Summer for Australia and Winter for France.
C18_SeasonByHemisphere ==
    cal_pc = "season_returned" =>
        LET month == MonthOf(cal_date)
        IN /\ cal_season \in {"Winter", "Spring", "Summer", "Fall"}
           /\ cal_country \in southern_countries =>
                 /\ cal_season = OppositeOf(NorthernSeason(month))
                 /\ cal_season =
                       CASE month \in {12, 1, 2} -> "Summer"
                         [] month \in {3, 4, 5} -> "Fall"
                         [] month \in {6, 7, 8} -> "Winter"
                         [] month \in {9, 10, 11} -> "Spring"
           /\ cal_country \notin southern_countries =>
                 cal_season = NorthernSeason(month)
           /\ (month = 1 /\ cal_country = "Australia") => cal_season = "Summer"
           /\ (month = 1 /\ cal_country = "France") => cal_season = "Winter"

\* Australia on a day of January.
C18_Witness ==
    /\ cal_pc = "season_returned"
    /\ cal_date = Date(0, 1, 15)
    /\ cal_country = "Australia"
    /\ cal_season = "Summer"

\* The window of each named break: its first and its last (month, day).
BreakWindows ==
    ("US/Canada: Summer Break" :> <<<<6, 15>>, <<8, 20>>>>) @@
    ("US/Canada: Winter Break" :> <<<<12, 20>>, <<1, 5>>>>) @@
    ("US/Canada: Spring Break" :> <<<<3, 15>>, <<3, 31>>>>) @@
    ("Australia: Summer Break (Dec-Jan)" :> <<<<12, 15>>, <<2, 10>>>>) @@
    ("Australia: Winter Break (Jun-Jul)" :> <<<<6, 20>>, <<7, 10>>>>) @@
    ("Europe: Summer Holiday (Jul-Aug)" :> <<<<7, 1>>, <<8, 31>>>>) @@
    ("Europe: Winter Holiday (Dec-Jan)" :> <<<<12, 20>>, <<1, 6>>>>) @@
    ("Asia: Summer Break (Jun-Aug)" :> <<<<7, 1>>, <<8, 31>>>>)

NamedBreaks == DOMAIN BreakWindows

\* A (month, day) lies between the first and the last day of a window, both
\* included; a window whose last day comes before its first wraps the year
\* end.
Within(month, day, window) ==
    LET at == month * 100 + day
        first == window[1][1] * 100 + window[1][2]
        last == window[2][1] * 100 + window[2][2]
    IN IF first <= last
       THEN first <= at /\ at <= last
       ELSE first <= at \/ at <= last

SchoolDaysOf ==
    [region \in {"US/Canada", "Australia", "Europe", "Asia"} |->
        CASE region = "US/Canada" -> "US/Canada: School Days"
          [] region = "Australia" -> "Australia: School Days"
          [] region = "Europe" -> "Europe: School Days"
          [] region = "Asia" -> "Asia: School Days"]

BreaksOf ==
    [region \in DOMAIN SchoolDaysOf |->
        CASE region = "US/Canada" ->
                 {"US/Canada: Summer Break", "US/Canada: Winter Break",
                  "US/Canada: Spring Break"}
          [] region = "Australia" ->
                 {"Australia: Summer Break (Dec-Jan)",
                  "Australia: Winter Break (Jun-Jul)"}
          [] region = "Europe" ->
                 {"Europe: Summer Holiday (Jul-Aug)",
                  "Europe: Winter Holiday (Dec-Jan)"}
          [] region = "Asia" -> {"Asia: Summer Break (Jun-Aug)"}]

RegionOf(period) == CHOOSE region \in DOMAIN SchoolDaysOf :
                        period \in BreaksOf[region] \cup {SchoolDaysOf[region]}

\* The holidays a region's School Days leaves out besides its named breaks:
\* Thanksgiving, the Australian autumn and spring holidays, and the Asian
\* new-year holiday.
OtherHolidays ==
    [region \in DOMAIN SchoolDaysOf |->
        CASE region = "US/Canada" -> {<<<<11, 20>>, <<11, 27>>>>}
          [] region = "Australia" -> {<<<<4, 1>>, <<4, 14>>>>,
                                      <<<<9, 20>>, <<9, 30>>>>}
          [] region = "Europe" -> {}
          [] region = "Asia" -> {<<<<12, 25>>, <<1, 5>>>>}]

InNamedBreak(date, region) ==
    \E break \in BreaksOf[region] : check_school_period(date, break)

InOtherHoliday(date, region) ==
    \E window \in OtherHolidays[region] :
        Within(MonthOf(date), DayOf(date), window)

\* The selectable periods of a region that hold for a date.
PeriodsHolding(date, region) ==
    {period \in BreaksOf[region] \cup {SchoolDaysOf[region]} :
        check_school_period(date, period)}

\* C20 as claimed: a region's School Days holds for a date exactly when none
\* of the region's named breaks holds for it, so that every date falls in
\* exactly one selectable period of each region.
C20_SchoolDaysComplementOfNamedBreaks ==
    (cal_pc = "school_returned" /\ cal_period \in PeriodTypes \ NamedBreaks) =>
        /\ cal_matches <=> ~InNamedBreak(cal_date, RegionOf(cal_period))
        /\ Cardinality(PeriodsHolding(cal_date, RegionOf(cal_period))) = 1

\* C20 amended: a region's School Days holds for a date exactly when the date
\* lies neither in a named break of the region nor in one of the region's
\* other holidays (US/Canada Nov 20-27; Australia Apr 1-14 and Sep 20-30;
\* Asia Dec 25-Jan 5; Europe none); a date in such a holiday falls in no
\* selectable period of the region, every other date in exactly one.
C20_SchoolDaysComplementOfAllHolidays ==
    (cal_pc = "school_returned" /\ cal_period \in PeriodTypes \ NamedBreaks) =>
        LET region == RegionOf(cal_period)
        IN /\ cal_matches <=> /\ ~InNamedBreak(cal_date, region)
                              /\ ~InOtherHoliday(cal_date, region)
           /\ Cardinality(PeriodsHolding(cal_date, region)) =
                 IF InOtherHoliday(cal_date, region) THEN 0 ELSE 1

\* A day of the Thanksgiving week asked of the US/Canada School Days: it is
\* no school day and lies in no named break.
C20_Witness ==
    /\ cal_pc = "school_returned"
    /\ cal_period = "US/Canada: School Days"
    /\ cal_date = Date(0, 11, 22)
    /\ ~cal_matches
    /\ ~InNamedBreak(cal_date, "US/Canada")

----------------------------------------------------------------------------
(* Claims about classify_region, under SpecRegion *)

RegionTags == DOMAIN regions_dict \cup {"Other"}

\* The regions that list a country.
RegionsListing(country) ==
    {region \in DOMAIN regions_dict : country \in regions_dict[region]}

\* C21: classify_region answers for every country, known, unknown or
\* missing, with one of the 8 tags; the same country gets the same tag
\* again; no country is listed under two regions, so the tag is the one
\* region that lists the country, whatever the order the regions are tried
\* in, and "Other" when none does.
C21_ClassifyRegionTotalAndDeterministic ==
    region_pc = "returned" =>
        \A i \in 1..2 :
            LET country == region_countries[i]
            IN /\ region_tags[i] \in RegionTags
               /\ region_tags[i] = classify_region(country)
               /\ region_countries[1] = region_countries[2] =>
                     region_tags[1] = region_tags[2]
               /\ Cardinality(RegionsListing(country)) <= 1
               /\ RegionsListing(country) =
                     IF region_tags[i] = "Other" THEN {}
                     ELSE {region_tags[i]}

\* A route from a listed country to a country without a list, and one
\* between airports of the same country.
C21_Witness ==
    /\ region_pc = "returned"
    /\ \/ region_countries = <<"Turkey", "Portugal">>
          /\ region_tags = <<"Europe", "Other">>
       \/ region_countries = <<"<NaN>", "Egypt">>
          /\ region_tags = <<"Other", "Africa">>

----------------------------------------------------------------------------
(* Claims about GeminiToolCallingAgent.chat, under SpecChat *)

\* C24 as claimed: whatever the API answers, chat returns a dict that holds
\* 'message' and 'tool_called'; it never returns None.
C24_ChatAlwaysReturnsADict ==
    chat_pc = "returned" =>
        /\ chat_response # <<>>
        /\ {"message", "tool_called"} \subseteq DOMAIN chat_response[1]

----------------------------------------------------------------------------
(* Claims about TripPlannerAgent, under SpecTrip and SpecTalk *)

\* The first of origin, budget, adults that is None.
FirstMissing(p) ==
    IF p.origin = <<>> THEN "origin"
    ELSE IF p.budget = <<>> THEN "budget"
    ELSE "adults"

\* C25: generate_response returns ready_to_search = True exactly when
\* origin, budget and adults are all set once the message is parsed;
\* otherwise it returns ready_to_search = False and the question for the
\* first of origin, budget, adults that is missing.
C25_ReadyIffRequiredParamsSet ==
    [][trip_history' # trip_history =>
          LET response == trip_response'[1]
              p == extracted_params'
              all_set == p.origin # <<>> /\ p.budget # <<>> /\ p.adults # <<>>
          IN /\ response.ready_to_search <=> all_set
             /\ ~all_set =>
                   /\ response.next_question # <<>>
                   /\ response.next_question[1].param = FirstMissing(p)
                   /\ response.message = response.next_question[1].question
                   /\ response.message =
                          CASE FirstMissing(p) = "origin" ->
                                   "Where will you be flying from?"
                            [] FirstMissing(p) = "budget" ->
                                   "What's your budget per person for flights?"
                            [] FirstMissing(p) = "adults" ->
                                   "How many adults are traveling?"]_vars

\* The agent has answered its second message with ready to search, the
\* origin having been set from an answer.
C25_Witness ==
    /\ trip_pc = "on"
    /\ Len(trip_history) = 2
    /\ trip_response[1].ready_to_search
    /\ extracted_params.origin # <<>>

\* C26 as claimed: in the conversation where each question asked is
\* answered by giving the answer to generate_response, the agent at last
\* returns ready_to_search = True.
C26_AnswersLeadToReady ==
    <>(trip_response # <<>> /\ trip_response[1].ready_to_search)

\* A message names the family.
NamesFamily(user_message) ==
    \/ IsIn(<<"f", "a", "m", "i", "l", "y">>, lower(user_message))
    \/ IsIn(<<"k", "i", "d", "s">>, lower(user_message))
    \/ IsIn(<<"c", "h", "i", "l", "d", "r", "e", "n">>, lower(user_message))

\* C30 as claimed: a message with a family keyword sets adults and children
\* to 2 where they are None, and a message never changes a number of adults
\* or of children that is set, a number of 0 children included.
C30_FamilyKeywordKeepsSetValues ==
    [][trip_history' # trip_history =>
          \A param \in {"adults", "children"} :
              IF extracted_params[param] # <<>>
              THEN extracted_params'[param] = extracted_params[param]
              ELSE extracted_params'[param] =
                       IF NamesFamily(trip_history'[Len(trip_history')])
                       THEN <<2>> ELSE <<>>]_vars

----------------------------------------------------------------------------
(* Claims about get_monthly_climate, under SpecWeather *)

\* A call has just been made with a key.
Called(cache_key) == weather_call' = <<cache_key>> /\ weather_returned' # <<>>

\* C27: once a call has succeeded for a key, the key is in the cache with
\* the result returned; whatever calls on other keys come in between, the
\* key stays there with that result, and every later call with the same
\* arguments returns it and sends no request.
C27_CacheHitReturnsStoredResult ==
    [][/\ \A cache_key \in DOMAIN weather_cache :
              /\ cache_key \in DOMAIN weather_cache'
              /\ weather_cache'[cache_key] = weather_cache[cache_key]
              /\ weather_call' = <<cache_key>> =>
                    /\ weather_returned' = <<weather_cache[cache_key]>>
                    /\ api_requests' = api_requests
       /\ weather_returned' # <<>> =>
              /\ weather_call'[1] \in DOMAIN weather_cache'
              /\ weather_cache'[weather_call'[1]] = weather_returned'[1]]_vars

\* A key fetched first is asked for again after another key has been
\* fetched, and the result of the first fetch comes back.
C27_Witness ==
    /\ Len(api_requests) = 2
    /\ api_requests[1].ok /\ api_requests[2].ok
    /\ api_requests[1].cache_key # api_requests[2].cache_key
    /\ weather_call = <<api_requests[1].cache_key>>
    /\ weather_returned # <<>>
    /\ weather_returned[1].fetched_at = 1

\* C29: a call whose request fails returns None and leaves the cache file
\* as it was: the failure is not stored and the keys stored keep their
\* values; a later call with the same arguments, finding no entry, sends
\* the request again.
C29_FailureIsNotCached ==
    [][/\ (/\ Len(api_requests') > Len(api_requests)
           /\ ~api_requests'[Len(api_requests')].ok) =>
              /\ weather_returned' = <<>>
              /\ weather_cache' = weather_cache
       /\ \A cache_key \in ClimateKeys :
              (weather_call' = <<cache_key>>
                   /\ cache_key \notin DOMAIN weather_cache) =>
                  /\ Len(api_requests') = Len(api_requests) + 1
                  /\ api_requests'[Len(api_requests')].cache_key = cache_key
       /\ \A i \in 1..Len(api_requests) :
              ~api_requests[i].ok =>
                  \/ api_requests[i].cache_key \notin DOMAIN weather_cache
                  \/ weather_cache[api_requests[i].cache_key].fetched_at # i]_vars

\* A request has failed with a key stored, and the same arguments have been
\* tried again.
C29_Witness ==
    /\ Len(api_requests) = 3
    /\ api_requests[1].ok
    /\ ~api_requests[2].ok
    /\ api_requests[3].cache_key = api_requests[2].cache_key
    /\ api_requests[1].cache_key \in DOMAIN weather_cache

----------------------------------------------------------------------------
(* Claims about GeminiTripAgent.chat, under SpecAgent *)

\* User and assistant entries take turns, the user first.
Alternating(history) ==
    /\ Len(history) % 2 = 0
    /\ \A i \in 1..Len(history) :
           history[i].role = (IF i % 2 = 1 THEN "user" ELSE "assistant")

\* C28: a chat that fails returns the fallback response, with
\* ready_to_search False, and leaves conversation_history as it was; after
\* every call the history is made of user and assistant entries taking
\* turns.  Fails: a parsed reply without 'message' raises at line 169,
\* after line 168 has appended the user entry.
C28_FailedChatLeavesHistory ==
    [][/\ (/\ agent_response' # <<>>
           /\ agent_response'[1].error # ""
           /\ Len(agent_history') >= Len(agent_history)) =>
              /\ agent_response'[1].ready_to_search = <<FALSE>>
              /\ agent_history' = agent_history
       /\ Alternating(agent_history')]_vars

====
